---- MODULE Spec2Model ----
(***************************************************************************)
(* Model of the TikTok downloader's server-side orchestration:             *)
(*   - DownloadQueue  (src/download-queue.js)                              *)
(*   - RateLimiter    (src/unnamed/part_003, rate-limiter.js)              *)
(*   - BrowserManager (src/browser-manager.js)                             *)
(* Node.js runs every handler to its next await without interleaving, so   *)
(* one action is one run-to-suspension segment of a handler or callback.   *)
(* Each component has its own specification; the variables of the other    *)
(* components stay unchanged in it.                                        *)
(***************************************************************************)
EXTENDS Integers, Sequences, FiniteSets, TLC

VARIABLES
    \* ---- DownloadQueue ----
    queue,            \* this.queue: FIFO of pending items [jobId, idx]
    activeDownloads,  \* this.activeDownloads
    results,          \* this.results: jobId -> batch record (a Map)
    jobCounter,       \* this.jobCounter
    running,          \* downloadItem invocations in flight, with their position
    purgeTimers,      \* pending setTimeout(() => results.delete(jobId)) per jobId
    accepted,         \* jobIds that addBatch returned to its caller
    submitted,        \* number of items received in batches so far
    \* ---- RateLimiter ----
    now,              \* Date.now(), in ms
    lastRequestTime,  \* this.lastRequestTime
    requestTimestamps,\* this.requestTimestamps
    isThrottled,      \* this.isThrottled
    throttleUntil,    \* this.throttleUntil
    sleepers,         \* waitForSlot calls suspended in sleep(): set of [id, at, wake]
    grantLog,         \* history: the times at which lastRequestTime was recorded
    callsMade,        \* number of waitForSlot calls issued so far
    ticks,            \* clock ticks taken so far
    cooldowns,        \* triggerCooldown calls made so far
    callInfo,         \* history: call id -> [at: start time, cd: cooldowns triggered before]
    grantIds,         \* history: the call of each entry of grantLog (0: an earlier call)
    manualUntil,      \* history: the throttleUntil set by each triggerCooldown call
    \* ---- BrowserManager ----
    browser,          \* this.browser: engine id, 0 for null
    engines,          \* launched engines: id -> "connected" | "closing" | "closed"
    pages,            \* engine id -> open pages in creation order (0 = blank tab)
    isLaunching,      \* this.isLaunching
    launchPromise,    \* this.launchPromise: id of the pending launch, 0 for null
    launches,         \* puppeteer.launch() calls in flight (launch ids)
    requestCount,     \* this.requestCount
    idleTimer,        \* number of pending idle setTimeouts; this.idleTimer is the last armed
    memoryCheckTimer, \* TRUE when the memory setInterval is armed
    recycleTimers,    \* pending setTimeout(() => closeBrowser(), 1000)
    recycleFor,       \* history: for each pending recycle timer, oldest first, the engine
                      \* of the getPage that scheduled it
    closers,          \* engine id -> closeBrowser calls suspended in await browser.close()
    calls,            \* getPage/releasePage callers: call id -> [pc, eng, victim]
    served,           \* history: engine id -> pages opened by getPage on it
    restarted,        \* history: engines that checkMemoryUsage called closeBrowser on
    idled,            \* history: connected engines that the idle timer called closeBrowser on
    \* ---- one download under observation ----
    probe,            \* what disk and network answer to the observed item
    invoked,          \* history: the strategies invoked for it, with what each received
    thrown,           \* history: the error.message pushed with its item result
    \* ---- ErrorRecovery ----
    html,             \* the page content at hand: [contains: patterns found, length]
    lastDiagnostic,   \* this.lastDiagnostic
    errorMessage,     \* what getErrorMessage returned for lastDiagnostic
    diagFiles,        \* diag_* and page_* files of DIAGNOSTICS_DIR, oldest mtime first
    saves,            \* saveDiagnostic calls made so far
    writeFailures,    \* writeFileSync calls that threw so far
    \* ---- scrapeTikTokVideo on photo URLs ----
    scrapes,          \* photo scrapes: call id -> [pc, browser, page, code]
    \* ---- extension: background worker and popup ----
    downloadState,    \* the worker's downloadState: [isProcessing, url, media, error]
    persisted,        \* downloadState as last given to chrome.storage.local.set
    handlers,         \* handleDownload invocations: download id -> position
    popup,            \* the popup: "idle" | "cleared" | "polling" | "shown"
    reply,            \* what the last getState message was answered with
    polls             \* getState messages sent by pollForResults so far

qvars == <<queue, activeDownloads, results, jobCounter, running, purgeTimers, accepted,
           submitted>>
rvars == <<now, lastRequestTime, requestTimestamps, isThrottled, throttleUntil,
           sleepers, grantLog, callsMade, ticks, cooldowns, callInfo, grantIds,
           manualUntil>>
bvars == <<browser, engines, pages, isLaunching, launchPromise, launches,
           requestCount, idleTimer, memoryCheckTimer, recycleTimers, closers,
           calls, served, restarted, idled, recycleFor>>
dvars == <<probe, invoked, thrown>>
evars == <<html, lastDiagnostic, errorMessage, diagFiles, saves, writeFailures>>
svars == <<scrapes>>
xvars == <<downloadState, persisted, handlers, popup, reply, polls>>
vars == <<qvars, rvars, bvars, dvars, evars, svars, xvars>>

(***************************************************************************)
(* DownloadQueue                                                           *)
(***************************************************************************)
MAX_CONCURRENT == 3
FETCH_MIN_BYTES == 1000
ITEM_MIN_BYTES == 1000
CAPTURE_MIN_BYTES == 10000
HEADER_SETS == 3

\* Bounds of the queue model.
MaxJobs == 4
MaxBatches == MaxJobs \div 2

\* What the synchronous head of downloadItem meets on disk.
SyncOutcomes == {"mkdirThrows", "exists", "absent"}
\* What one fetch attempt yields: -1 for a thrown error or a non-ok status,
\* otherwise the buffer length.
FetchOutcomes == {-1, FETCH_MIN_BYTES, FETCH_MIN_BYTES + 1}
\* What tryPuppeteerDownload met: -1 for an error or no video response, otherwise
\* the length of the video response's buffer.
CaptureOutcomes == {-1, ITEM_MIN_BYTES, CAPTURE_MIN_BYTES, CAPTURE_MIN_BYTES + 1}

QInit ==
    /\ queue = <<>>
    /\ activeDownloads = 0
    /\ results = <<>>
    /\ jobCounter = 0
    /\ running = {}
    /\ purgeTimers = [b \in 1..MaxBatches |-> 0]
    /\ accepted = {}
    /\ submitted = 0

\* The queue's state as one value, threaded through the synchronous code.
\* error is the error.message that downloadItem's catch block pushed last.
QState == [queue |-> queue, active |-> activeDownloads, results |-> results,
           running |-> running, timers |-> purgeTimers, error |-> "none"]

\* A variant of checkJobComplete that tests > instead of >=.
CheckJobCompleteStrict(st, jobId) ==
    IF jobId \in DOMAIN st.results
       /\ st.results[jobId].completed + st.results[jobId].failed > st.results[jobId].total
    THEN [st EXCEPT !.results[jobId].status = "complete",
                    !.timers[jobId] = @ + 1]
    ELSE st

\* A variant of checkJobComplete that lacks the setTimeout.
CheckJobCompleteNoTimer(st, jobId) ==
    IF jobId \in DOMAIN st.results
       /\ st.results[jobId].completed + st.results[jobId].failed >= st.results[jobId].total
    THEN [st EXCEPT !.results[jobId].status = "complete"]
    ELSE st

\* checkJobComplete: at completed + failed >= total the batch is marked and a
\* timer of 5 minutes is armed that deletes it.
CheckJobComplete(st, jobId) ==
    IF jobId \in DOMAIN st.results
       /\ st.results[jobId].completed + st.results[jobId].failed >= st.results[jobId].total
    THEN [st EXCEPT !.results[jobId].status = "complete",
                    !.timers[jobId] = @ + 1]
    ELSE st

\* A variant of the recording in which the skip path lacks its completed++.
RecordItemSkipUncounted(st, item, status) ==
    LET r == st.results[item.jobId]
        r2 == [r EXCEPT !.completed = IF status = "success" THEN @ + 1 ELSE @,
                        !.failed = IF status = "failed" THEN @ + 1 ELSE @,
                        !.items = Append(@, [idx |-> item.idx, status |-> status])]
    IN [st EXCEPT !.results[item.jobId] = r2]

\* result.completed++ / result.failed++ and result.items.push(...)
RecordItem(st, item, status) ==
    LET r == st.results[item.jobId]
        r2 == [r EXCEPT !.completed = IF status = "failed" THEN @ ELSE @ + 1,
                        !.failed = IF status = "failed" THEN @ + 1 ELSE @,
                        !.items = Append(@, [idx |-> item.idx, status |-> status])]
    IN [st EXCEPT !.results[item.jobId] = r2]

\* The promise of downloadItem(item) settles: its .finally callback is queued.
Settle(st, item) ==
    [st EXCEPT !.running = (@ \ {r \in @ : r.jobId = item.jobId /\ r.idx = item.idx})
                            \cup {[jobId |-> item.jobId, idx |-> item.idx,
                                   pc |-> "settled", attempt |-> 0]}]

\* downloadItem's catch block, which pushes error.message with the item,
\* followed by the trailing checkJobComplete.
FailItem(st, item, err) ==
    [Settle(CheckJobComplete(RecordItem(st, item, "failed"), item.jobId), item)
        EXCEPT !.error = err]

\* A variant of the skip path that lacks its return and so falls through to the
\* trailing checkJobComplete.
SkipItemFallThrough(st, item) ==
    Settle(CheckJobComplete(
             CheckJobComplete(RecordItem(st, item, "skipped"), item.jobId),
             item.jobId), item)

\* A variant of the skip path that lacks its return and so goes on to the
\* strategies after recording the item.
SkipItemGoesOn(st, item) ==
    [CheckJobComplete(RecordItem(st, item, "skipped"), item.jobId)
        EXCEPT !.running = @ \cup {[jobId |-> item.jobId, idx |-> item.idx,
                                    pc |-> "fetch", attempt |-> 1]}]

\* downloadItem's skip path: completed++, push, checkJobComplete, return.
SkipItem(st, item) ==
    Settle(CheckJobComplete(RecordItem(st, item, "skipped"), item.jobId), item)

\* The messages of the errors that reach downloadItem's catch block.
MKDIR_ERROR == "mkdirSync failed"
BLOCKED_ERROR == "Could not download - TikTok blocking"
WRITE_ERROR == "writeFileSync failed"

\* downloadItem from the buffer its strategies returned (-1: null): size check,
\* writeFileSync, completed++.
FinishItem(st, item, size, writeOk) ==
    IF size < 0 \/ size < ITEM_MIN_BYTES
    THEN FailItem(st, item, BLOCKED_ERROR)
    ELSE IF ~writeOk
    THEN FailItem(st, item, WRITE_ERROR)
    ELSE Settle(CheckJobComplete(RecordItem(st, item, "success"), item.jobId), item)

\* A variant of downloadItem's head that lacks the existing-file test.
DownloadItemSyncNoSkip(st, item, disk) ==
    IF disk = "mkdirThrows" THEN FailItem(st, item, MKDIR_ERROR)
    ELSE [st EXCEPT !.running = @ \cup {[jobId |-> item.jobId, idx |-> item.idx,
                                         pc |-> "fetch", attempt |-> 1]}]

\* downloadItem up to its first await.
DownloadItemSync(st, item, disk) ==
    IF disk = "mkdirThrows" THEN FailItem(st, item, MKDIR_ERROR)
    ELSE IF disk = "exists" THEN SkipItem(st, item)
    ELSE [st EXCEPT !.running = @ \cup {[jobId |-> item.jobId, idx |-> item.idx,
                                         pc |-> "fetch", attempt |-> 1]}]

\* A variant of processQueue whose loop test is <= MAX_CONCURRENT.
RECURSIVE ProcessQueueOffByOne(_, _)
ProcessQueueOffByOne(st, disk) ==
    IF Len(st.queue) > 0 /\ st.active <= MAX_CONCURRENT
    THEN ProcessQueueOffByOne(
             DownloadItemSync([st EXCEPT !.queue = Tail(@), !.active = @ + 1],
                              Head(st.queue), Head(disk)),
             Tail(disk))
    ELSE st

\* A variant of processQueue that starts at most one item per run.
ProcessQueueOnce(st, disk) ==
    IF Len(st.queue) > 0 /\ st.active < MAX_CONCURRENT
    THEN DownloadItemSync([st EXCEPT !.queue = Tail(@), !.active = @ + 1],
                          Head(st.queue), Head(disk))
    ELSE st

\* processQueue: disk gives what each started item meets on disk, in order.
RECURSIVE ProcessQueue(_, _)
ProcessQueue(st, disk) ==
    IF Len(st.queue) > 0 /\ st.active < MAX_CONCURRENT
    THEN ProcessQueue(
             DownloadItemSync([st EXCEPT !.queue = Tail(@), !.active = @ + 1],
                              Head(st.queue), Head(disk)),
             Tail(disk))
    ELSE st

\* What the items started by one processQueue run meet on disk: a run from st
\* starts at most Len(st.queue) items.
DiskChoices(st) ==
    LET free == IF st.active > MAX_CONCURRENT THEN 0 ELSE MAX_CONCURRENT + 1 - st.active
        k == IF Len(st.queue) < free THEN Len(st.queue) ELSE free
    IN [1..k -> SyncOutcomes]

\* Writes a threaded queue state back to the variables.
QCommit(st) ==
    /\ queue' = st.queue
    /\ activeDownloads' = st.active
    /\ results' = st.results
    /\ running' = st.running
    /\ purgeTimers' = st.timers

NewBatch(n) ==
    [status |-> "processing", total |-> n, completed |-> 0, failed |-> 0,
     items |-> <<>>]

RECURSIVE PushItems(_, _, _, _)
PushItems(q, jobId, i, n) ==
    IF i > n THEN q ELSE PushItems(Append(q, [jobId |-> jobId, idx |-> i]), jobId, i + 1, n)

\* POST /api/batch-save with a non-empty items array of objects and a username:
\* addBatch runs to its return.
AddBatch(n) ==
    /\ jobCounter < MaxBatches
    /\ n >= 1 /\ submitted + n <= MaxJobs
    /\ submitted' = submitted + n
    /\ LET jobId == jobCounter + 1
           st0 == [QState EXCEPT !.results = (jobId :> NewBatch(n)) @@ @,
                                 !.queue = PushItems(@, jobId, 1, n)]
       IN /\ \E disk \in DiskChoices(st0) : QCommit(ProcessQueue(st0, disk))
          /\ jobCounter' = jobId
          /\ accepted' = accepted \cup {jobId}
    /\ UNCHANGED <<rvars, bvars, dvars, evars, svars, xvars>>

\* POST /api/batch-save whose items array holds null at position k: addBatch
\* throws on item.url after registering the batch and pushing k-1 items, before
\* processQueue.
AddBatchThrows(n, k) ==
    /\ jobCounter < MaxBatches
    /\ n >= 1 /\ k \in 1..n /\ submitted + n <= MaxJobs
    /\ submitted' = submitted + n
    /\ LET jobId == jobCounter + 1
       IN /\ results' = (jobId :> NewBatch(n)) @@ results
          /\ queue' = PushItems(queue, jobId, 1, k - 1)
          /\ jobCounter' = jobId
    /\ UNCHANGED <<activeDownloads, running, purgeTimers, accepted>>
    /\ UNCHANGED <<rvars, bvars, dvars, evars, svars, xvars>>

ItemOf(r) == [jobId |-> r.jobId, idx |-> r.idx]

\* tryFetchDownload's test "if (buffer.length > 1000)" on a response that is ok.
FetchAccepts(out) == out > FETCH_MIN_BYTES

\* The response handler's test "if (buffer && buffer.length > 10000)".
CaptureAccepts(out) == out > CAPTURE_MIN_BYTES

\* A variant of tryFetchDownload's loop that goes on to the next header set
\* although the response was accepted.
NextStrategyAlways(r, out) ==
    IF r.attempt < HEADER_SETS
    THEN [r EXCEPT !.attempt = @ + 1]
    ELSE [r EXCEPT !.pc = "puppeteer", !.attempt = 0]

\* Where a running item goes when its fetch attempt received out: to the rest of
\* downloadItem when the response was accepted, else to the next header set,
\* and after the last one to tryPuppeteerDownload.
NextStrategy(r, out) ==
    IF FetchAccepts(out) THEN [r EXCEPT !.pc = "finish"]
    ELSE IF r.attempt < HEADER_SETS
    THEN [r EXCEPT !.attempt = @ + 1]
    ELSE [r EXCEPT !.pc = "puppeteer", !.attempt = 0]

\* One pass of tryFetchDownload's loop for the running item r, on the queue
\* state st.
FetchStep(st, r, out, writeOk) ==
    IF NextStrategy(r, out).pc = "finish"
    THEN FinishItem(st, ItemOf(r), out, writeOk)
    ELSE [st EXCEPT !.running = (@ \ {r}) \cup {NextStrategy(r, out)}]

\* tryPuppeteerDownload returns (null on error or when nothing was captured) and
\* downloadItem finishes, on the queue state st.
CaptureStep(st, r, out, writeOk) ==
    IF CaptureAccepts(out)
    THEN FinishItem(st, ItemOf(r), out, writeOk)
    ELSE FinishItem(st, ItemOf(r), -1, TRUE)

\* A variant of the .finally callback that lacks the call of processQueue.
FinallyStepNoSchedule(st, r, disk) ==
    [st EXCEPT !.running = @ \ {r}, !.active = @ - 1]

\* The .finally callback of processQueue on the queue state st: activeDownloads--,
\* processQueue().
FinallyStep(st, r, disk) ==
    ProcessQueue([st EXCEPT !.running = @ \ {r}, !.active = @ - 1], disk)

\* One pass of tryFetchDownload's loop for a running item.
FetchAttempt(r, out) ==
    /\ r \in running /\ r.pc = "fetch"
    /\ \E writeOk \in BOOLEAN : QCommit(FetchStep(QState, r, out, writeOk))
    /\ UNCHANGED <<jobCounter, accepted, submitted, rvars, bvars, dvars, evars, svars, xvars>>

\* tryPuppeteerDownload returns and downloadItem finishes.
PuppeteerAttempt(r, out) ==
    /\ r \in running /\ r.pc = "puppeteer"
    /\ \E writeOk \in BOOLEAN : QCommit(CaptureStep(QState, r, out, writeOk))
    /\ UNCHANGED <<jobCounter, accepted, submitted, rvars, bvars, dvars, evars, svars, xvars>>

\* The .finally callback of processQueue: activeDownloads--, processQueue().
Finally(r) ==
    /\ r \in running /\ r.pc = "settled"
    /\ \E disk \in DiskChoices([QState EXCEPT !.running = @ \ {r}, !.active = @ - 1]) :
          QCommit(FinallyStep(QState, r, disk))
    /\ UNCHANGED <<jobCounter, accepted, submitted, rvars, bvars, dvars, evars, svars, xvars>>

\* The retention timer of checkJobComplete fires.
Purge(b) ==
    /\ purgeTimers[b] > 0
    /\ purgeTimers' = [purgeTimers EXCEPT ![b] = @ - 1]
    /\ results' = [x \in (DOMAIN results) \ {b} |-> results[x]]
    /\ UNCHANGED <<queue, activeDownloads, jobCounter, running, accepted, submitted>>
    /\ UNCHANGED <<rvars, bvars, dvars, evars, svars, xvars>>

\* Some running item takes its next step.
JobStep ==
    \/ \E r \in running, out \in FetchOutcomes : FetchAttempt(r, out)
    \/ \E r \in running, out \in CaptureOutcomes : PuppeteerAttempt(r, out)
    \/ \E r \in running : Finally(r)

QNext ==
    \/ \E n \in 1..MaxJobs : AddBatch(n)
    \/ \E n \in 1..MaxJobs, k \in 1..MaxJobs : AddBatchThrows(n, k)
    \/ JobStep
    \/ \E b \in 1..MaxBatches : Purge(b)

(***************************************************************************)
(* RateLimiter                                                             *)
(***************************************************************************)
MIN_DELAY_MS == 2000
MAX_REQUESTS_PER_MINUTE == 15
BURST_COOLDOWN_MS == 60000
WINDOW_MS == 60000

\* Bounds of the rate-limiter model.
MaxCalls == 3
MaxTicks == 1
MaxCooldowns == 2

\* The smallest step of the clock when no timer is awaited.
TickMs == MIN_DELAY_MS \div 2
\* Date.now() when the process has been up for a while; lastRequestTime starts
\* at 0, far in the past of any real clock.
StartTime == 2 * BURST_COOLDOWN_MS
\* Grants already made, one every MIN_DELAY_MS, in the warm initial state.
WarmGrants == MAX_REQUESTS_PER_MINUTE - 2

\* The durations triggerCooldown is called with: its default and a short one.
CooldownChoices == {MIN_DELAY_MS, BURST_COOLDOWN_MS}

NoSleep == [at |-> "none", wake |-> 0]

\* The limiter's fields as one value, threaded through waitForSlot.
RState == [last |-> lastRequestTime, ts |-> requestTimestamps,
           thr |-> isThrottled, until |-> throttleUntil]

\* "Record this request": lastRequestTime = Date.now(); push.
RecordRequest(rs, t) ==
    [rs |-> [rs EXCEPT !.last = t, !.ts = Append(@, t)], sleep |-> NoSleep,
     grant |-> TRUE]

\* "Ensure minimum delay between requests".
DelayPhase(rs, t) ==
    IF t - rs.last < MIN_DELAY_MS
    THEN [rs |-> rs,
          sleep |-> [at |-> "delay", wake |-> t + (MIN_DELAY_MS - (t - rs.last))],
          grant |-> FALSE]
    ELSE RecordRequest(rs, t)

\* "Clean old timestamps" and "Check requests per minute limit".
PrunePhase(rs, t) ==
    LET kept == SelectSeq(rs.ts, LAMBDA x : x > t - WINDOW_MS)
    IN IF Len(kept) >= MAX_REQUESTS_PER_MINUTE
       THEN [rs |-> [rs EXCEPT !.ts = kept, !.thr = TRUE,
                               !.until = t + BURST_COOLDOWN_MS],
             sleep |-> [at |-> "burst", wake |-> t + BURST_COOLDOWN_MS],
             grant |-> FALSE]
       ELSE DelayPhase([rs EXCEPT !.ts = kept], t)

\* "Check if we're in cooldown": waitForSlot from its entry.
StartPhase(rs, t) ==
    IF rs.thr /\ t < rs.until
    THEN [rs |-> rs, sleep |-> [at |-> "cooldown", wake |-> rs.until],
          grant |-> FALSE]
    ELSE PrunePhase(rs, t)

\* waitForSlot resumed after the sleep it was suspended in.
ResumePhase(at, rs, t) ==
    CASE at = "cooldown" -> PrunePhase([rs EXCEPT !.thr = FALSE], t)
      [] at = "burst" -> DelayPhase([rs EXCEPT !.thr = FALSE, !.ts = <<>>], t)
      [] OTHER -> RecordRequest(rs, t)

RCommit(id, res) ==
    /\ lastRequestTime' = res.rs.last
    /\ requestTimestamps' = res.rs.ts
    /\ isThrottled' = res.rs.thr
    /\ throttleUntil' = res.rs.until
    /\ grantLog' = IF res.grant THEN Append(grantLog, now) ELSE grantLog
    /\ grantIds' = IF res.grant THEN Append(grantIds, id) ELSE grantIds
    /\ sleepers' = {s \in sleepers : s.id # id} \cup
                   (IF res.sleep.at = "none" THEN {}
                    ELSE {[id |-> id, at |-> res.sleep.at, wake |-> res.sleep.wake]})

WarmTimes == [i \in 1..WarmGrants |-> StartTime + (i - 1) * MIN_DELAY_MS]

RInitIdle ==
    /\ isThrottled = FALSE
    /\ throttleUntil = 0
    /\ sleepers = {}
    /\ callsMade = 0
    /\ ticks = 0
    /\ cooldowns = 0
    /\ callInfo = <<>>
    /\ manualUntil = <<>>

\* The limiter as constructed, some time after the process started.
RInitCold ==
    /\ RInitIdle
    /\ now = StartTime
    /\ lastRequestTime = 0
    /\ requestTimestamps = <<>>
    /\ grantLog = <<>>
    /\ grantIds = <<>>

\* The limiter after WarmGrants calls made one after the other, each at the
\* moment the previous one's MIN_DELAY_MS had passed.
RInitWarm ==
    /\ RInitIdle
    /\ now = WarmTimes[WarmGrants]
    /\ lastRequestTime = WarmTimes[WarmGrants]
    /\ requestTimestamps = WarmTimes
    /\ grantLog = WarmTimes
    /\ grantIds = [i \in 1..WarmGrants |-> 0]

RInit == RInitCold \/ RInitWarm

\* A caller (scrapeTikTokVideo) invokes waitForSlot.
WaitForSlot ==
    /\ callsMade < MaxCalls
    /\ callsMade' = callsMade + 1
    /\ callInfo' = Append(callInfo, [at |-> now, cd |-> cooldowns])
    /\ RCommit(callsMade + 1, StartPhase(RState, now))
    /\ UNCHANGED <<now, ticks, cooldowns, manualUntil, qvars, bvars, dvars, evars, svars, xvars>>

\* A variant of the timer callback that runs only once the clock is past the
\* timer's time.
WakeLate(s) ==
    /\ s \in sleepers
    /\ s.wake < now
    /\ RCommit(s.id, ResumePhase(s.at, RState, now))
    /\ UNCHANGED <<now, callsMade, ticks, cooldowns, callInfo, manualUntil, qvars, bvars, dvars, evars, svars, xvars>>

\* The setTimeout of a suspended call fires and the call runs on.
Wake(s) ==
    /\ s \in sleepers
    /\ s.wake <= now
    /\ RCommit(s.id, ResumePhase(s.at, RState, now))
    /\ UNCHANGED <<now, callsMade, ticks, cooldowns, callInfo, manualUntil, qvars, bvars, dvars, evars, svars, xvars>>

\* triggerCooldown(durationMs)
TriggerCooldown(d) ==
    /\ cooldowns < MaxCooldowns
    /\ cooldowns' = cooldowns + 1
    /\ isThrottled' = TRUE
    /\ throttleUntil' = now + d
    /\ manualUntil' = Append(manualUntil, now + d)
    /\ UNCHANGED <<now, lastRequestTime, requestTimestamps, sleepers, grantLog,
                   callsMade, ticks, callInfo, grantIds, qvars, bvars, dvars, evars, svars, xvars>>

\* The clock moves on by one tick.
Tick ==
    /\ ticks < MaxTicks
    /\ ticks' = ticks + 1
    /\ now' = now + TickMs
    /\ UNCHANGED <<lastRequestTime, requestTimestamps, isThrottled, throttleUntil,
                   sleepers, grantLog, callsMade, cooldowns, callInfo, grantIds,
                   manualUntil, qvars, bvars, dvars, evars, svars, xvars>>

\* The clock moves on to the next timer that is due.
JumpToTimer ==
    /\ sleepers # {}
    /\ \A s \in sleepers : s.wake > now
    /\ \E s \in sleepers :
          /\ \A o \in sleepers : s.wake <= o.wake
          /\ now' = s.wake
    /\ UNCHANGED <<lastRequestTime, requestTimestamps, isThrottled, throttleUntil,
                   sleepers, grantLog, callsMade, ticks, cooldowns, callInfo, grantIds,
                   manualUntil, qvars, bvars, dvars, evars, svars, xvars>>

RNext ==
    \/ WaitForSlot
    \/ \E s \in sleepers : Wake(s)
    \/ \E d \in CooldownChoices : TriggerCooldown(d)
    \/ Tick
    \/ JumpToTimer

(***************************************************************************)
(* BrowserManager                                                          *)
(***************************************************************************)
MAX_PAGES == 5
MAX_REQUESTS == 50

\* Bounds of the pool model.
MaxPoolCalls == 3
MaxEngines == 3

\* Leases already open, and requests already counted, in the warm initial state.
WarmLeases == MAX_PAGES - 2
WarmRequests == MAX_REQUESTS - 2

\* browser.isConnected(): true until the engine's connection has dropped, so
\* also for an engine that close() was called on and that is still going down.
IsConnected(e) == e \in DOMAIN engines /\ engines[e] # "closed"

Waiting(c) == calls[c].pc \in {"launcher", "awaitLaunch"}

\* Call ids and engine ids are handed out in order.
NextCall == Cardinality(DOMAIN calls) + 1
NextLaunch ==
    LET used == DOMAIN engines \cup launches
    IN IF used = {} THEN 1 ELSE (CHOOSE m \in used : \A x \in used : x <= m) + 1

Idle(c) == [pc |-> "done", eng |-> 0, victim |-> 0]

BInitIdle ==
    /\ isLaunching = FALSE
    /\ launchPromise = 0
    /\ launches = {}
    /\ recycleTimers = 0
    /\ recycleFor = <<>>
    /\ closers = [e \in 1..MaxEngines |-> 0]
    /\ restarted = {}
    /\ idled = {}

\* The manager as constructed.
BInitCold ==
    /\ BInitIdle
    /\ browser = 0
    /\ engines = <<>>
    /\ pages = <<>>
    /\ served = <<>>
    /\ requestCount = 0
    /\ idleTimer = 0
    /\ memoryCheckTimer = FALSE
    /\ calls = <<>>

\* The manager with its first engine up after WarmRequests getPage calls, of
\* which the last WarmLeases are long scrapes that hold their pages (-1, -2, ...)
\* throughout.
BInitWarm ==
    /\ BInitIdle
    /\ browser = 1
    /\ engines = <<"connected">>
    /\ pages = << <<0>> \o [i \in 1..WarmLeases |-> 0 - i] >>
    /\ served = <<WarmRequests>>
    /\ requestCount = WarmRequests
    /\ idleTimer = 1
    /\ memoryCheckTimer = TRUE
    /\ calls = <<>>

\* getPage after "await this.getBrowser()" for k callers in turn: each does
\* requestCount++ and schedules a close when the count has reached MAX_REQUESTS.
CountRequests(k) ==
    /\ requestCount' = requestCount + k
    /\ recycleTimers' = recycleTimers +
          Cardinality({i \in 1..k : requestCount + i >= MAX_REQUESTS})
    /\ recycleFor' = recycleFor \o
          [i \in 1..Cardinality({i \in 1..k : requestCount + i >= MAX_REQUESTS}) |-> browser]

\* A variant of getBrowser that never takes the "already launching" branch.
\* clearTimeout(this.idleTimer) with pending idle timeouts: the handle names the
\* last one armed, which is removed if it has not fired.
ClearIdleTimer(pending) == IF pending > 0 THEN pending - 1 ELSE 0

\* resetIdleTimer: clearTimeout of the previous handle, then a new setTimeout.
ResetIdleTimer(pending) == ClearIdleTimer(pending) + 1

JoinsLaunchNever == FALSE

\* getBrowser's test "if (this.isLaunching && this.launchPromise)".
JoinsLaunch == isLaunching /\ launchPromise # 0

\* getPage is called: getBrowser runs to its return or to its await.
GetPage ==
    /\ NextCall <= MaxPoolCalls
    /\ LET c == NextCall
       IN IF IsConnected(browser)
          THEN /\ idleTimer' = ResetIdleTimer(idleTimer)
               /\ CountRequests(1)
               /\ calls' = (c :> [pc |-> "pages", eng |-> browser, victim |-> 0]) @@ calls
               /\ UNCHANGED <<isLaunching, launchPromise, launches>>
          ELSE IF JoinsLaunch
          THEN /\ calls' = (c :> [pc |-> "awaitLaunch", eng |-> launchPromise,
                                  victim |-> 0]) @@ calls
               /\ UNCHANGED <<isLaunching, launchPromise, launches, idleTimer,
                              requestCount, recycleTimers, recycleFor>>
          ELSE /\ NextLaunch <= MaxEngines
               /\ isLaunching' = TRUE
               /\ launchPromise' = NextLaunch
               /\ launches' = launches \cup {NextLaunch}
               /\ calls' = (c :> [pc |-> "launcher", eng |-> NextLaunch,
                                  victim |-> 0]) @@ calls
               /\ UNCHANGED <<idleTimer, requestCount, recycleTimers, recycleFor>>
    /\ UNCHANGED <<browser, engines, pages, memoryCheckTimer, closers, served>>
    /\ UNCHANGED <<qvars, rvars, dvars, evars, svars, xvars>>
    /\ UNCHANGED <<restarted, idled>>

\* puppeteer.launch() resolves: the launching getBrowser stores the engine and
\* every caller awaiting this launch goes on in getPage.
LaunchResolve(l) ==
    /\ l \in launches
    /\ launches' = launches \ {l}
    /\ engines' = (l :> "connected") @@ engines
    /\ pages' = (l :> <<0>>) @@ pages
    /\ served' = (l :> 0) @@ served
    /\ browser' = l
    /\ idleTimer' = ResetIdleTimer(idleTimer)
    /\ memoryCheckTimer' = TRUE
    /\ isLaunching' = FALSE
    /\ launchPromise' = 0
    /\ LET ws == {c \in DOMAIN calls : Waiting(c) /\ calls[c].eng = l}
       IN /\ requestCount' = Cardinality(ws)
          /\ recycleTimers' = recycleTimers +
                Cardinality({i \in 1..Cardinality(ws) : i >= MAX_REQUESTS})
          /\ recycleFor' = recycleFor \o
                [i \in 1..Cardinality({i \in 1..Cardinality(ws) : i >= MAX_REQUESTS}) |-> l]
          /\ calls' = [c \in DOMAIN calls |->
                         IF c \in ws THEN [calls[c] EXCEPT !.pc = "pages"] ELSE calls[c]]
    /\ UNCHANGED closers
    /\ UNCHANGED <<qvars, rvars, dvars, evars, svars, xvars>>
    /\ UNCHANGED <<restarted, idled>>

\* A variant of the rejected launch in which getBrowser lacks its finally block.
LaunchRejectNoFinally(l) ==
    /\ l \in launches
    /\ launches' = launches \ {l}
    /\ calls' = [c \in DOMAIN calls |->
                   IF Waiting(c) /\ calls[c].eng = l
                   THEN [calls[c] EXCEPT !.pc = "failed"] ELSE calls[c]]
    /\ UNCHANGED <<browser, engines, pages, requestCount, idleTimer, isLaunching,
                   launchPromise, memoryCheckTimer, recycleTimers, closers, served>>
    /\ UNCHANGED <<qvars, rvars, dvars, evars, svars, xvars>>
    /\ UNCHANGED <<restarted, idled, recycleFor>>

\* puppeteer.launch() rejects: getBrowser's finally runs and every caller
\* awaiting this launch gets the error.
LaunchReject(l) ==
    /\ l \in launches
    /\ launches' = launches \ {l}
    /\ isLaunching' = FALSE
    /\ launchPromise' = 0
    /\ calls' = [c \in DOMAIN calls |->
                   IF Waiting(c) /\ calls[c].eng = l
                   THEN [calls[c] EXCEPT !.pc = "failed"] ELSE calls[c]]
    /\ UNCHANGED <<browser, engines, pages, requestCount, idleTimer,
                   memoryCheckTimer, recycleTimers, closers, served>>
    /\ UNCHANGED <<qvars, rvars, dvars, evars, svars, xvars>>
    /\ UNCHANGED <<restarted, idled, recycleFor>>

Remove(seq, x) == SelectSeq(seq, LAMBDA y : y # x)
Has(seq, x) == \E i \in 1..Len(seq) : seq[i] = x

\* getPage's test "if (pages.length >= MAX_PAGES)".
OverPageLimit(n) == n >= MAX_PAGES

\* "await browser.pages()" returns (or throws on a closed engine).
PagesReply(c) ==
    /\ c \in DOMAIN calls /\ calls[c].pc = "pages"
    /\ LET e == calls[c].eng
       IN calls' = [calls EXCEPT ![c] =
             IF ~IsConnected(e) THEN [@ EXCEPT !.pc = "failed"]
             ELSE IF OverPageLimit(Len(pages[e]))
                  THEN [@ EXCEPT !.pc = "closeOld", !.victim = pages[e][2]]
                  ELSE [@ EXCEPT !.pc = "newPage"]]
    /\ UNCHANGED <<browser, engines, pages, isLaunching, launchPromise, launches,
                   requestCount, idleTimer, memoryCheckTimer, recycleTimers,
                   closers, served>>
    /\ UNCHANGED <<qvars, rvars, dvars, evars, svars, xvars>>
    /\ UNCHANGED <<restarted, idled, recycleFor>>

\* "await oldestPage.close()" returns; its errors are ignored.
CloseOldDone(c) ==
    /\ c \in DOMAIN calls /\ calls[c].pc = "closeOld"
    /\ LET e == calls[c].eng
       IN pages' = [pages EXCEPT ![e] = Remove(@, calls[c].victim)]
    /\ calls' = [calls EXCEPT ![c].pc = "newPage"]
    /\ UNCHANGED <<browser, engines, isLaunching, launchPromise, launches,
                   requestCount, idleTimer, memoryCheckTimer, recycleTimers,
                   closers, served>>
    /\ UNCHANGED <<qvars, rvars, dvars, evars, svars, xvars>>
    /\ UNCHANGED <<restarted, idled, recycleFor>>

\* "await browser.newPage()" returns the new page and getPage hands it to its
\* caller after setting it up, or newPage throws: always on a closed engine,
\* possibly on one that is going down.
NewPageDone(c) ==
    /\ c \in DOMAIN calls /\ calls[c].pc = "newPage"
    /\ LET e == calls[c].eng
       IN \/ /\ IsConnected(e)
             /\ pages' = [pages EXCEPT ![e] = Append(@, c)]
             /\ served' = [served EXCEPT ![e] = @ + 1]
             /\ calls' = [calls EXCEPT ![c].pc = "leased"]
          \/ /\ engines[e] # "connected"
             /\ calls' = [calls EXCEPT ![c].pc = "failed"]
             /\ UNCHANGED <<pages, served>>
    /\ UNCHANGED <<browser, engines, isLaunching, launchPromise, launches,
                   requestCount, idleTimer, memoryCheckTimer, recycleTimers, closers>>
    /\ UNCHANGED <<qvars, rvars, dvars, evars, svars, xvars>>
    /\ UNCHANGED <<restarted, idled, recycleFor>>

\* "await browser.newPage()" has returned the new page and one of getPage's
\* setup calls on it (setUserAgent, setExtraHTTPHeaders, evaluateOnNewDocument)
\* throws: getPage rejects and its caller holds no page.
SetupThrows(c) ==
    /\ c \in DOMAIN calls /\ calls[c].pc = "newPage"
    /\ LET e == calls[c].eng
       IN /\ IsConnected(e)
          /\ pages' = [pages EXCEPT ![e] = Append(@, c)]
    /\ calls' = [calls EXCEPT ![c].pc = "failed"]
    /\ UNCHANGED <<browser, engines, isLaunching, launchPromise, launches,
                   requestCount, idleTimer, memoryCheckTimer, recycleTimers, closers,
                   served>>
    /\ UNCHANGED <<qvars, rvars, dvars, evars, svars, xvars>>
    /\ UNCHANGED <<restarted, idled, recycleFor>>

\* A variant of releasePage that also resets requestCount, as closeBrowser does.
ReleasePageResetsCount(c) ==
    /\ c \in DOMAIN calls /\ calls[c].pc = "leased"
    /\ LET e == calls[c].eng
       IN pages' = [pages EXCEPT ![e] = Remove(@, c)]
    /\ calls' = [calls EXCEPT ![c] = Idle(c)]
    /\ idleTimer' = ResetIdleTimer(idleTimer)
    /\ requestCount' = 0
    /\ UNCHANGED <<browser, engines, isLaunching, launchPromise, launches,
                   memoryCheckTimer, recycleTimers, closers, served>>
    /\ UNCHANGED <<qvars, rvars, dvars, evars, svars, xvars>>
    /\ UNCHANGED <<restarted, idled, recycleFor>>

\* releasePage(page): closes the page when it is still open, then re-arms the
\* idle timer.
ReleasePage(c) ==
    /\ c \in DOMAIN calls /\ calls[c].pc = "leased"
    /\ LET e == calls[c].eng
       IN pages' = [pages EXCEPT ![e] = Remove(@, c)]
    /\ calls' = [calls EXCEPT ![c] = Idle(c)]
    /\ idleTimer' = ResetIdleTimer(idleTimer)
    /\ UNCHANGED <<browser, engines, isLaunching, launchPromise, launches,
                   requestCount, memoryCheckTimer, recycleTimers, closers, served>>
    /\ UNCHANGED <<qvars, rvars, dvars, evars, svars, xvars>>
    /\ UNCHANGED <<restarted, idled, recycleFor>>

\* closeBrowser up to "await this.browser.close()", or to its end when
\* this.browser is null. close() starts taking the engine down; the engine is
\* down in EngineDown and the promise resolves in CloseDone.
CloseBrowserFrom(pending) ==
    /\ idleTimer' = ClearIdleTimer(pending)
    /\ memoryCheckTimer' = FALSE
    /\ IF browser # 0
       THEN /\ engines' = [engines EXCEPT ![browser] =
                              IF @ = "connected" THEN "closing" ELSE @]
            /\ closers' = [closers EXCEPT ![browser] = @ + 1]
            /\ UNCHANGED requestCount
       ELSE /\ requestCount' = 0
            /\ UNCHANGED <<engines, closers>>
    /\ UNCHANGED <<browser, pages, isLaunching, launchPromise, launches, calls, served>>

\* closeBrowser called by the memory monitor or the scheduled recycle.
CloseBrowser == CloseBrowserFrom(idleTimer)

\* An engine that close() was called on has exited: its connection drops and
\* its pages are gone.
EngineDown(e) ==
    /\ e \in DOMAIN engines /\ engines[e] = "closing"
    /\ engines' = [engines EXCEPT ![e] = "closed"]
    /\ pages' = [pages EXCEPT ![e] = <<>>]
    /\ UNCHANGED <<browser, isLaunching, launchPromise, launches, requestCount,
                   idleTimer, memoryCheckTimer, recycleTimers, closers, calls, served>>
    /\ UNCHANGED <<qvars, rvars, dvars, evars, svars, xvars>>
    /\ UNCHANGED <<restarted, idled, recycleFor>>

\* "await this.browser.close()" returns in a closeBrowser that closed engine e.
CloseDone(e) ==
    /\ e \in DOMAIN engines /\ engines[e] = "closed"
    /\ closers[e] > 0
    /\ closers' = [closers EXCEPT ![e] = @ - 1]
    /\ browser' = 0
    /\ requestCount' = 0
    /\ UNCHANGED <<engines, pages, isLaunching, launchPromise, launches, idleTimer,
                   memoryCheckTimer, recycleTimers, calls, served>>
    /\ UNCHANGED <<qvars, rvars, dvars, evars, svars, xvars>>
    /\ UNCHANGED <<restarted, idled, recycleFor>>

\* The idle setTimeout fires.
IdleFire ==
    /\ idleTimer > 0
    /\ CloseBrowserFrom(idleTimer - 1)
    /\ idled' = IF browser # 0 /\ engines[browser] = "connected"
                THEN idled \cup {browser} ELSE idled
    /\ UNCHANGED <<recycleTimers, restarted, recycleFor>>
    /\ UNCHANGED <<qvars, rvars, dvars, evars, svars, xvars>>

\* The setInterval of startMemoryMonitor fires and checkMemoryUsage finds the
\* resident memory above MAX_MEMORY_MB.
MemoryHigh ==
    /\ memoryCheckTimer
    /\ IsConnected(browser)
    /\ CloseBrowser
    /\ restarted' = restarted \cup {browser}
    /\ UNCHANGED idled
    /\ UNCHANGED <<recycleTimers, recycleFor>>
    /\ UNCHANGED <<qvars, rvars, dvars, evars, svars, xvars>>

\* The setTimeout scheduled by getPage at MAX_REQUESTS fires.
RecycleFire ==
    /\ recycleTimers > 0
    /\ recycleTimers' = recycleTimers - 1
    /\ recycleFor' = Tail(recycleFor)
    /\ CloseBrowser
    /\ UNCHANGED <<qvars, rvars, dvars, evars, svars, xvars>>
    /\ UNCHANGED <<restarted, idled>>

\* A pending promise of the pool settles, or a lease holder releases its page.
PoolStep ==
    \/ \E l \in launches : LaunchResolve(l)
    \/ \E l \in launches : LaunchReject(l)
    \/ \E c \in DOMAIN calls : PagesReply(c)
    \/ \E c \in DOMAIN calls : CloseOldDone(c)
    \/ \E c \in DOMAIN calls : NewPageDone(c)
    \/ \E c \in DOMAIN calls : ReleasePage(c)
    \/ \E e \in DOMAIN engines : EngineDown(e)
    \/ \E e \in DOMAIN engines : CloseDone(e)

BNext ==
    \/ GetPage
    \/ \E l \in launches : LaunchResolve(l)
    \/ \E l \in launches : LaunchReject(l)
    \/ \E c \in DOMAIN calls : PagesReply(c)
    \/ \E c \in DOMAIN calls : CloseOldDone(c)
    \/ \E c \in DOMAIN calls : NewPageDone(c)
    \/ \E c \in DOMAIN calls : ReleasePage(c)
    \/ \E e \in DOMAIN engines : EngineDown(e)
    \/ \E e \in DOMAIN engines : CloseDone(e)
    \/ IdleFire
    \/ MemoryHigh
    \/ RecycleFire

\* The pool with page setup that can fail.
LNext ==
    \/ GetPage
    \/ \E l \in launches : LaunchResolve(l)
    \/ \E l \in launches : LaunchReject(l)
    \/ \E c \in DOMAIN calls : PagesReply(c)
    \/ \E c \in DOMAIN calls : CloseOldDone(c)
    \/ \E c \in DOMAIN calls : NewPageDone(c)
    \/ \E c \in DOMAIN calls : ReleasePage(c)
    \/ \E e \in DOMAIN engines : EngineDown(e)
    \/ \E e \in DOMAIN engines : CloseDone(e)
    \/ IdleFire
    \/ MemoryHigh
    \/ RecycleFire
    \/ \E c \in DOMAIN calls : SetupThrows(c)

(***************************************************************************)
(* One download under observation: a batch of one item whose answers from  *)
(* disk and network are fixed beforehand                                   *)
(***************************************************************************)
\* What a strategy attempt that received no payload ended with.
REQUEST_ERROR == "request failed"

\* The answers the observed item can meet: the disk, each header set's fetch,
\* the session-backed capture, writeFileSync.
ProbeSet ==
    [disk : SyncOutcomes, fetch : [1..HEADER_SETS -> FetchOutcomes],
     capture : CaptureOutcomes, writeOk : BOOLEAN]

\* No item is under observation.
DIdle ==
    /\ probe = [disk |-> "absent", fetch |-> [i \in 1..HEADER_SETS |-> -1],
                capture |-> -1, writeOk |-> TRUE]
    /\ invoked = <<>>
    /\ thrown = "none"

DInit ==
    /\ probe \in ProbeSet
    /\ invoked = <<>>
    /\ thrown = "none"

\* The entry of the history for strategy k having received out.
Invocation(k, out) ==
    [strategy |-> k, size |-> out, error |-> IF out < 0 THEN REQUEST_ERROR ELSE "none"]

\* addBatch for the observed item alone.
ObservedSubmit ==
    /\ jobCounter = 0
    /\ LET st0 == [QState EXCEPT !.results = (1 :> NewBatch(1)) @@ @,
                                 !.queue = PushItems(@, 1, 1, 1)]
           st1 == ProcessQueue(st0, <<probe.disk>>)
       IN /\ QCommit(st1)
          /\ thrown' = st1.error
    /\ jobCounter' = 1
    /\ accepted' = accepted \cup {1}
    /\ submitted' = submitted + 1
    /\ UNCHANGED <<probe, invoked, rvars, bvars, evars, svars, xvars>>

\* The observed item's fetch with its next header set.
ObservedFetch ==
    \E r \in running :
        /\ r.pc = "fetch"
        /\ LET st1 == FetchStep(QState, r, probe.fetch[r.attempt], probe.writeOk)
           IN /\ QCommit(st1)
              /\ thrown' = st1.error
        /\ invoked' = Append(invoked, Invocation(r.attempt, probe.fetch[r.attempt]))
        /\ UNCHANGED <<jobCounter, accepted, submitted, probe, rvars, bvars, evars, svars, xvars>>

\* The observed item's session-backed capture.
ObservedCapture ==
    \E r \in running :
        /\ r.pc = "puppeteer"
        /\ LET st1 == CaptureStep(QState, r, probe.capture, probe.writeOk)
           IN /\ QCommit(st1)
              /\ thrown' = st1.error
        /\ invoked' = Append(invoked, Invocation(HEADER_SETS + 1, probe.capture))
        /\ UNCHANGED <<jobCounter, accepted, submitted, probe, rvars, bvars, evars, svars, xvars>>

\* The .finally callback after the observed item's downloadItem settled.
ObservedFinally ==
    \E r \in running :
        /\ r.pc = "settled"
        /\ QCommit(FinallyStep(QState, r, <<>>))
        /\ UNCHANGED <<jobCounter, accepted, submitted, dvars, rvars, bvars, evars, svars, xvars>>

DNext ==
    \/ ObservedSubmit
    \/ ObservedFetch
    \/ ObservedCapture
    \/ ObservedFinally
    \/ \E b \in 1..MaxBatches : Purge(b)

(***************************************************************************)
(* ErrorRecovery                                                           *)
(***************************************************************************)
MIN_PAGE_LENGTH == 5000
KEEP_FILES == 20

\* Bounds of the diagnostics model.
MaxSaves == 12
MaxWriteFailures == 2

\* Patterns of STRUCTURE_SIGNATURES and of the verification test that a page
\* may contain; none is a substring of another.
WarningPatterns == {"Video is unavailable", "This account is private"}
PostElements == {"__UNIVERSAL_DATA_FOR_REHYDRATION__", "\"ItemModule\"", "sigi.state"}
MediaElements == {"\"playAddr\""}
VerifyMarkers == {"captcha", "verify", "Verify to continue"}

\* The lengths a page may have; each exceeds the total length of the patterns.
PageLengths == {400, MIN_PAGE_LENGTH - 1, MIN_PAGE_LENGTH, MIN_PAGE_LENGTH + 1}

Pages ==
    [contains : SUBSET (WarningPatterns \cup PostElements \cup MediaElements
                        \cup VerifyMarkers),
     length : PageLengths]

NoDiagnostic == [structureValid |-> TRUE, issues |-> {}, analyzed |-> FALSE]
NoMessage == [text |-> "", detail |-> <<>>]

EInitIdle ==
    /\ html = [contains |-> {}, length |-> MIN_PAGE_LENGTH]
    /\ lastDiagnostic = NoDiagnostic
    /\ errorMessage = NoMessage
    /\ diagFiles = <<>>
    /\ saves = 0
    /\ writeFailures = 0

EInitPage ==
    /\ html \in Pages
    /\ lastDiagnostic = NoDiagnostic
    /\ errorMessage = NoMessage
    /\ diagFiles = <<>>
    /\ saves = 0
    /\ writeFailures = 0

\* A variant of analyzePage in which fewer than two post elements clear
\* structureValid.
AnalyzePageStrict(h) ==
    LET found == h.contains \cap PostElements
    IN [structureValid |-> Cardinality(found) >= 2 /\ h.length >= MIN_PAGE_LENGTH
                           /\ h.contains \cap (WarningPatterns \cup VerifyMarkers) = {},
        issues |-> {}, analyzed |-> TRUE]

\* analyzePage(html, url): the checks in their order, each adding its issue and
\* some clearing structureValid.
AnalyzePage(h) ==
    LET warned == h.contains \cap WarningPatterns
        d1 == [structureValid |-> warned = {},
               issues |-> {<<"Content unavailable", w>> : w \in warned}]
        foundPost == h.contains \cap PostElements
        d2 == IF Cardinality(foundPost) = 0
              THEN [structureValid |-> FALSE,
                    issues |-> d1.issues \cup {<<"No post structure elements found", "">>}]
              ELSE IF Cardinality(foundPost) < 2
              THEN [d1 EXCEPT !.issues = @ \cup {<<"Only 1 post elements found", "expected 2+">>}]
              ELSE d1
        foundMedia == h.contains \cap MediaElements
        d3 == IF Cardinality(foundMedia) = 0
              THEN [d2 EXCEPT !.issues = @ \cup {<<"No media URL patterns found in page", "">>}]
              ELSE d2
        d4 == IF h.length < MIN_PAGE_LENGTH
              THEN [structureValid |-> FALSE,
                    issues |-> d3.issues \cup {<<"Page unusually short", "chars">>}]
              ELSE d3
        d5 == IF h.contains \cap VerifyMarkers # {}
              THEN [structureValid |-> FALSE,
                    issues |-> d4.issues \cup {<<"Captcha or verification required", "">>}]
              ELSE d4
    IN [structureValid |-> d5.structureValid, issues |-> d5.issues, analyzed |-> TRUE]

\* errorRecovery.analyzePage is called on the page at hand.
Analyze ==
    /\ ~lastDiagnostic.analyzed
    /\ lastDiagnostic' = AnalyzePage(html)
    /\ UNCHANGED <<html, errorMessage, diagFiles, saves, writeFailures>>
    /\ UNCHANGED <<qvars, rvars, bvars, dvars, svars, xvars>>

\* The words getErrorMessage looks for that occur in the text of an issue:
\* `Content unavailable: "<warning>"` has "unavailable" and, for the private
\* account warning, "private" as well.
IssueIncludes(i, word) ==
    CASE i[1] = "Content unavailable" ->
           word = "unavailable" \/ (word = "private" /\ i[2] = "This account is private")
      [] i[1] = "Captcha or verification required" -> word = "Captcha"
      [] i[1] = "Page unusually short" -> word = "short"
      [] OTHER -> FALSE

\* The position of an issue in diagnostic.issues, by the order of the pushes.
IssueRank(i) ==
    CASE i[1] = "Content unavailable" ->
           IF i[2] = "This account is private" THEN 1 ELSE 2
      [] i[1] = "No post structure elements found" -> 3
      [] i[1] = "Only 1 post elements found" -> 3
      [] i[1] = "No media URL patterns found in page" -> 4
      [] i[1] = "Page unusually short" -> 5
      [] OTHER -> 6

\* diagnostic.issues[0]
FirstIssue(issues) == CHOOSE i \in issues : \A j \in issues : IssueRank(i) <= IssueRank(j)

VERIFY_MESSAGE == "TikTok requires human verification. Try again later"
UNAVAILABLE_MESSAGE == "Video not found, private, or removed"
BLOCKED_MESSAGE == "TikTok may have blocked this request. Try again later"
STRUCTURE_MESSAGE == "TikTok page structure may have changed. Check diagnostics folder for details"

\* A variant of getErrorMessage that looks for the short page first.
GetErrorMessageShortFirst(d) ==
    IF \E i \in d.issues : IssueIncludes(i, "short")
    THEN [text |-> BLOCKED_MESSAGE, detail |-> <<>>]
    ELSE IF \E i \in d.issues : IssueIncludes(i, "Captcha")
    THEN [text |-> VERIFY_MESSAGE, detail |-> <<>>]
    ELSE [text |-> STRUCTURE_MESSAGE, detail |-> <<>>]

\* getErrorMessage(diagnostic)
GetErrorMessage(d) ==
    IF ~d.structureValid
    THEN IF \E i \in d.issues : IssueIncludes(i, "Captcha")
         THEN [text |-> VERIFY_MESSAGE, detail |-> <<>>]
         ELSE IF \E i \in d.issues :
                     IssueIncludes(i, "unavailable") \/ IssueIncludes(i, "private")
         THEN [text |-> UNAVAILABLE_MESSAGE, detail |-> <<>>]
         ELSE IF \E i \in d.issues : IssueIncludes(i, "short")
         THEN [text |-> BLOCKED_MESSAGE, detail |-> <<>>]
         ELSE [text |-> STRUCTURE_MESSAGE, detail |-> <<>>]
    ELSE IF d.issues # {}
    THEN [text |-> "Extraction issues: ", detail |-> FirstIssue(d.issues)]
    ELSE [text |-> "Unknown error occurred", detail |-> <<>>]

\* errorRecovery.getErrorMessage is called on the report of the last analysis.
Describe ==
    /\ lastDiagnostic.analyzed
    /\ errorMessage = NoMessage
    /\ errorMessage' = GetErrorMessage(lastDiagnostic)
    /\ UNCHANGED <<html, lastDiagnostic, diagFiles, saves, writeFailures>>
    /\ UNCHANGED <<qvars, rvars, bvars, dvars, svars, xvars>>

ANext ==
    \/ Analyze
    \/ Describe

\* What the file system does to one saveDiagnostic call: both writes succeed,
\* the write of the diag_ file throws, or the write of the page_ file throws.
WriteOutcomes == {"ok", "diagFails", "pageFails"}

\* diag_<videoId>_<timestamp>.json and page_<videoId>_<timestamp>.html of the
\* n-th call; the calls' timestamps differ.
DiagFile(n) == [kind |-> "diag", id |-> n]
PageFile(n) == [kind |-> "page", id |-> n]

\* cleanOldDiagnostics(): the files sorted by mtime, newest first, and all but
\* the first KEEP_FILES deleted. `files` is ordered oldest first.
CleanOldDiagnostics(files) ==
    IF Len(files) > KEEP_FILES
    THEN SubSeq(files, Len(files) - KEEP_FILES + 1, Len(files))
    ELSE files

\* saveDiagnostic(html, diagnostic): the two writes and the cleanup inside one
\* try; a write that throws lands in the catch, which skips what follows.
SaveDiagnostic(outcome) ==
    /\ saves < MaxSaves
    /\ outcome # "ok" => writeFailures < MaxWriteFailures
    /\ saves' = saves + 1
    /\ writeFailures' = IF outcome = "ok" THEN writeFailures ELSE writeFailures + 1
    /\ diagFiles' =
          CASE outcome = "diagFails" -> diagFiles
            [] outcome = "pageFails" -> Append(diagFiles, DiagFile(saves + 1))
            [] outcome = "ok" ->
                 CleanOldDiagnostics(
                     Append(Append(diagFiles, DiagFile(saves + 1)), PageFile(saves + 1)))
    /\ UNCHANGED <<html, lastDiagnostic, errorMessage>>
    /\ UNCHANGED <<qvars, rvars, bvars, dvars, svars, xvars>>

ENext ==
    \/ \E outcome \in WriteOutcomes : SaveDiagnostic(outcome)

(***************************************************************************)
(* scrapeTikTokVideo on photo URLs: the directly launched browser          *)
(***************************************************************************)
MaxScrapes == 3

\* How a photo scrape whose page is loaded leaves scrapeTikTokVideo.
ExitPaths == {"photos", "video", "captcha", "downloadFailed", "exception"}

SInit == scrapes = <<>>

\* scrapeTikTokVideo(url) for a photo URL, after waitForSlot has returned:
\* puppeteer.launch is called.
PhotoScrape ==
    /\ Len(scrapes) < MaxScrapes
    /\ scrapes' = Append(scrapes, [pc |-> "launch", browser |-> "none", page |-> FALSE,
                                   code |-> "none"])
    /\ UNCHANGED <<qvars, rvars, bvars, dvars, evars, xvars>>

\* "await puppeteer.launch(...)" resolves, or rejects into the catch block,
\* where page is null.
DirectLaunchDone(s, ok) ==
    /\ s \in DOMAIN scrapes /\ scrapes[s].pc = "launch"
    /\ scrapes' = [scrapes EXCEPT ![s] =
          IF ok THEN [@ EXCEPT !.pc = "newPage", !.browser = "live"]
          ELSE [@ EXCEPT !.pc = "returned", !.code = "SCRAPE_ERROR"]]
    /\ UNCHANGED <<qvars, rvars, bvars, dvars, evars, xvars>>

\* "await directBrowser.newPage()" resolves, or rejects into the catch block,
\* where page is still null.
DirectPageDone(s, ok) ==
    /\ s \in DOMAIN scrapes /\ scrapes[s].pc = "newPage"
    /\ scrapes' = [scrapes EXCEPT ![s] =
          IF ok THEN [@ EXCEPT !.pc = "loaded", !.page = TRUE]
          ELSE [@ EXCEPT !.pc = "returned", !.code = "SCRAPE_ERROR"]]
    /\ UNCHANGED <<qvars, rvars, bvars, dvars, evars, xvars>>

\* What scrapeTikTokVideo returns on each path.
ExitCode(path) ==
    CASE path = "photos" -> "SUCCESS"
      [] path = "video" -> "SUCCESS"
      [] path = "captcha" -> "CAPTCHA"
      [] path = "downloadFailed" -> "DOWNLOAD_FAILED"
      [] OTHER -> "SCRAPE_ERROR"

\* The scrape's record when it returns by path: the photo path closes the
\* direct browser, every other path calls browserManager.releasePage(page).
LeaveScrape(sc, path) ==
    IF path = "photos"
    THEN [sc EXCEPT !.pc = "returned", !.code = ExitCode(path), !.page = FALSE,
                    !.browser = "closed"]
    ELSE [sc EXCEPT !.pc = "returned", !.code = ExitCode(path), !.page = FALSE]

\* The photo scrape returns: with photos found, as a video, on a captcha, with
\* nothing downloaded, or through the catch block. releasePage re-arms the
\* pool's idle timer.
ExitScrape(s, path) ==
    /\ s \in DOMAIN scrapes /\ scrapes[s].pc = "loaded"
    /\ scrapes' = [scrapes EXCEPT ![s] = LeaveScrape(@, path)]
    /\ idleTimer' = IF path = "photos" THEN idleTimer ELSE ResetIdleTimer(idleTimer)
    /\ UNCHANGED <<browser, engines, pages, isLaunching, launchPromise, launches,
                   requestCount, memoryCheckTimer, recycleTimers, closers, calls,
                   served, restarted, idled, recycleFor>>
    /\ UNCHANGED <<qvars, rvars, dvars, evars, xvars>>

PNext ==
    \/ PhotoScrape
    \/ \E s \in DOMAIN scrapes, ok \in BOOLEAN : DirectLaunchDone(s, ok)
    \/ \E s \in DOMAIN scrapes, ok \in BOOLEAN : DirectPageDone(s, ok)
    \/ \E s \in DOMAIN scrapes, path \in ExitPaths : ExitScrape(s, path)

(***************************************************************************)
(* Extension: background worker and popup                                  *)
(***************************************************************************)
MaxDownloads == 2
MaxPolls == 3

\* downloadState as the worker starts with and as clearState leaves it.
ClearedState == [isProcessing |-> FALSE, url |-> 0, media |-> FALSE, error |-> FALSE]

XInit ==
    /\ downloadState = ClearedState
    /\ persisted = ClearedState
    /\ handlers = <<>>
    /\ popup = "idle"
    /\ reply = ClearedState
    /\ polls = 0

\* The popup's startDownload up to the answer to its clearState message; the
\* worker's listener resets downloadState.
PopupClear ==
    /\ popup \in {"idle", "shown"}
    /\ Len(handlers) < MaxDownloads
    /\ downloadState' = ClearedState
    /\ popup' = "cleared"
    /\ UNCHANGED <<persisted, handlers, reply, polls>>
    /\ UNCHANGED <<qvars, rvars, bvars, dvars, evars, svars>>

\* The popup sends startDownload: the listener calls handleDownload, which runs
\* to its first await, the one of getServerUrl(), with nothing assigned yet, and
\* answers {started: true}; the popup starts to poll.
StartDownload ==
    /\ popup = "cleared"
    /\ handlers' = Append(handlers, "settings")
    /\ popup' = "polling"
    /\ UNCHANGED <<downloadState, persisted, reply, polls>>
    /\ UNCHANGED <<qvars, rvars, bvars, dvars, evars, svars>>

\* getServerUrl() resolves: handleDownload assigns the processing state and
\* calls chrome.storage.local.set.
ServerUrlReady(d) ==
    /\ d \in DOMAIN handlers /\ handlers[d] = "settings"
    /\ downloadState' = [isProcessing |-> TRUE, url |-> d, media |-> FALSE, error |-> FALSE]
    /\ persisted' = downloadState'
    /\ handlers' = [handlers EXCEPT ![d] = "persist"]
    /\ UNCHANGED <<popup, reply, polls>>
    /\ UNCHANGED <<qvars, rvars, bvars, dvars, evars, svars>>

\* The first chrome.storage.local.set resolves: page extraction or fetch begins.
PersistDone(d) ==
    /\ d \in DOMAIN handlers /\ handlers[d] = "persist"
    /\ handlers' = [handlers EXCEPT ![d] = "fetch"]
    /\ UNCHANGED <<downloadState, persisted, popup, reply, polls>>
    /\ UNCHANGED <<qvars, rvars, bvars, dvars, evars, svars>>

\* The extraction or the fetch ends, with media or with an error: the result
\* is assigned to downloadState and given to chrome.storage.local.set.
FetchDone(d, ok) ==
    /\ d \in DOMAIN handlers /\ handlers[d] = "fetch"
    /\ downloadState' = [isProcessing |-> FALSE, url |-> d, media |-> ok, error |-> ~ok]
    /\ persisted' = downloadState'
    /\ handlers' = [handlers EXCEPT ![d] = "persistFinal"]
    /\ UNCHANGED <<popup, reply, polls>>
    /\ UNCHANGED <<qvars, rvars, bvars, dvars, evars, svars>>

\* The final chrome.storage.local.set resolves and handleDownload returns.
FinalPersistDone(d) ==
    /\ d \in DOMAIN handlers /\ handlers[d] = "persistFinal"
    /\ handlers' = [handlers EXCEPT ![d] = "done"]
    /\ UNCHANGED <<downloadState, persisted, popup, reply, polls>>
    /\ UNCHANGED <<qvars, rvars, bvars, dvars, evars, svars>>

\* One tick of pollForResults' interval: getState is answered with
\* downloadState; the popup stops polling when isProcessing is false.
GetState ==
    /\ popup = "polling"
    /\ polls < MaxPolls
    /\ polls' = polls + 1
    /\ reply' = downloadState
    /\ popup' = IF downloadState.isProcessing THEN "polling" ELSE "shown"
    /\ UNCHANGED <<downloadState, persisted, handlers>>
    /\ UNCHANGED <<qvars, rvars, bvars, dvars, evars, svars>>

\* chrome.tabs.onUpdated with a URL change or a reload while media is cached:
\* clearBadgeAndState.
TabUpdated ==
    /\ downloadState.media
    /\ downloadState' = ClearedState
    /\ UNCHANGED <<persisted, handlers, popup, reply, polls>>
    /\ UNCHANGED <<qvars, rvars, bvars, dvars, evars, svars>>

XNext ==
    \/ PopupClear
    \/ StartDownload
    \/ \E d \in DOMAIN handlers : ServerUrlReady(d)
    \/ \E d \in DOMAIN handlers : PersistDone(d)
    \/ \E d \in DOMAIN handlers, ok \in BOOLEAN : FetchDone(d, ok)
    \/ \E d \in DOMAIN handlers : FinalPersistDone(d)
    \/ GetState
    \/ TabUpdated

(***************************************************************************)
(* Specifications                                                          *)
(***************************************************************************)
\* Each component's specification starts the other two as constructed.
QueueInit == QInit /\ RInitCold /\ BInitCold /\ DIdle /\ EInitIdle /\ SInit /\ XInit
LimiterInit == QInit /\ RInit /\ BInitCold /\ DIdle /\ EInitIdle /\ SInit /\ XInit
PoolInit == QInit /\ RInitCold /\ BInitWarm /\ DIdle /\ EInitIdle /\ SInit /\ XInit
DownloadInit == QInit /\ RInitCold /\ BInitCold /\ DInit /\ EInitIdle /\ SInit /\ XInit
AnalyzeInit == QInit /\ RInitCold /\ BInitCold /\ DIdle /\ EInitPage /\ SInit /\ XInit
DiagnosticsInit == QInit /\ RInitCold /\ BInitCold /\ DIdle /\ EInitIdle /\ SInit /\ XInit
PhotoInit == QInit /\ RInitCold /\ BInitCold /\ DIdle /\ EInitIdle /\ SInit /\ XInit
ExtensionInit == QInit /\ RInitCold /\ BInitCold /\ DIdle /\ EInitIdle /\ SInit /\ XInit

QueueSpec == QueueInit /\ [][QNext]_vars
\* Every strategy attempt returns and every settled promise runs its callback.
FairQueueSpec == QueueSpec /\ WF_vars(JobStep)
\* Moreover every armed retention timer fires.
RetentionSpec ==
    QueueSpec /\ WF_vars(JobStep) /\ WF_vars(\E b \in 1..MaxBatches : Purge(b))
LimiterSpec == LimiterInit /\ [][RNext]_vars
\* Timers fire: the clock reaches the next timer that is due and its callback runs.
FairLimiterSpec == LimiterSpec /\ WF_vars(JumpToTimer) /\ WF_vars(\E s \in sleepers : Wake(s))
PoolSpec == PoolInit /\ [][BNext]_vars
LeaseSpec == PoolInit /\ [][LNext]_vars
DownloadSpec == DownloadInit /\ [][DNext]_vars
AnalyzeSpec == AnalyzeInit /\ [][ANext]_vars
DiagnosticsSpec == DiagnosticsInit /\ [][ENext]_vars
PhotoSpec == PhotoInit /\ [][PNext]_vars
ExtensionSpec == ExtensionInit /\ [][XNext]_vars
\* Every promise of puppeteer settles and every lease holder releases its page.
FairPoolSpec == PoolSpec /\ WF_vars(PoolStep)

(***************************************************************************)
(* Properties                                                              *)
(***************************************************************************)

\* C1: in every reachable state of the queue the number of items running
\* downloadItem equals activeDownloads, which is never negative and never above
\* MAX_CONCURRENT.
C1_BoundedConcurrency ==
    /\ activeDownloads >= 0
    /\ activeDownloads <= MAX_CONCURRENT
    /\ Cardinality(running) = activeDownloads

\* The cap is reached with items still waiting.
C1_Witness ==
    /\ activeDownloads = MAX_CONCURRENT
    /\ Len(queue) > 0
    /\ \E r \in running : r.pc = "fetch"

\* C2: any two consecutive grant times differ by at least MIN_DELAY_MS, also
\* for waitForSlot calls that overlap in time.
C2_GrantSpacing ==
    \A i \in 1..(Len(grantLog) - 1) : grantLog[i + 1] - grantLog[i] >= MIN_DELAY_MS

\* C3: no interval of WINDOW_MS contains more than MAX_REQUESTS_PER_MINUTE
\* grants, also for waitForSlot calls that overlap in time.
C3_WindowCap ==
    \A i \in 1..Len(grantLog) :
        Cardinality({j \in 1..Len(grantLog) :
                        /\ grantLog[j] <= grantLog[i]
                        /\ grantLog[j] > grantLog[i] - WINDOW_MS})
            <= MAX_REQUESTS_PER_MINUTE

\* C4: at every instant at most one launched engine is not yet closed, and a
\* launched engine that is not closed is the one the pool references.
C4_SingleEngine ==
    /\ Cardinality({e \in DOMAIN engines : engines[e] # "closed"}) <= 1
    /\ \A e \in DOMAIN engines : engines[e] # "closed" => browser = e

Complete(b) == results[b].completed + results[b].failed = results[b].total

\* C5 (state part): a batch is 'complete' in exactly the states where
\* completed + failed = total, and exactly one purge has been scheduled for a
\* complete batch and none for any other.
C5_CompleteIff ==
    /\ \A b \in DOMAIN results :
          /\ (results[b].status = "complete") <=> Complete(b)
          /\ purgeTimers[b] = (IF results[b].status = "complete" THEN 1 ELSE 0)
    /\ \A b \in (1..MaxBatches) \ DOMAIN results : purgeTimers[b] = 0

\* C5 (step part): a step that makes a batch 'complete' schedules its one purge,
\* and a complete batch never leaves that status while it is kept.
C5_Once ==
    \A b \in DOMAIN results :
        b \in DOMAIN results' =>
            /\ (results[b].status = "complete" => results'[b].status = "complete")
            /\ (results[b].status # "complete" /\ results'[b].status = "complete"
                  => purgeTimers[b] = 0 /\ purgeTimers'[b] = 1)

\* C5: for every batch the status changes from 'processing' to 'complete' once,
\* with one purge scheduled, and the status is 'complete' in exactly the states
\* where completed + failed = total.
C5_CompleteExactlyOnce == [] C5_CompleteIff /\ [][C5_Once]_vars

\* A batch of several items is complete, some skipped and some failed, with its
\* purge pending.
C5_Witness ==
    \E b \in DOMAIN results :
        /\ results[b].status = "complete"
        /\ results[b].total >= 3
        /\ results[b].completed >= 1 /\ results[b].failed >= 1
        /\ \E i \in 1..Len(results[b].items) : results[b].items[i].status = "skipped"
        /\ purgeTimers[b] = 1

Processing(b) ==
    b \in accepted /\ b \in DOMAIN results /\ results[b].status = "processing"

\* C6: every batch accepted by addBatch eventually is 'complete' with
\* completed + failed = total, and the pending queue eventually is empty with
\* activeDownloads back at 0, when every strategy attempt terminates.
C6_BatchTerminates ==
    \A b \in 1..MaxBatches :
        /\ Processing(b) ~>
              (b \in DOMAIN results /\ results[b].status = "complete" /\ Complete(b))
        /\ Processing(b) ~> (queue = <<>> /\ activeDownloads = 0)

\* Two accepted batches are both complete with the queue drained.
C6_Witness ==
    /\ accepted = 1..MaxBatches
    /\ \A b \in accepted : b \in DOMAIN results /\ results[b].status = "complete"
    /\ \E b \in accepted : results[b].total >= 2
    /\ queue = <<>> /\ activeDownloads = 0

\* C7 (state part): at most one launch is in flight, it is the one
\* launchPromise names, one caller started it, and every caller that found no
\* connected engine awaits it.
C7_OneLaunch ==
    /\ Cardinality(launches) <= 1
    /\ \A l \in launches :
          /\ isLaunching /\ launchPromise = l
          /\ Cardinality({c \in DOMAIN calls : calls[c].pc = "launcher"
                                                /\ calls[c].eng = l}) = 1
    /\ \A c \in DOMAIN calls : Waiting(c) => calls[c].eng \in launches

\* C7 (step part): a waiting caller goes on only with the engine its launch
\* produced, newly launched in that step and stored in this.browser, and every
\* other waiting caller goes on with it in the same step.
C7_SameEngine ==
    \A c \in DOMAIN calls :
        (Waiting(c) /\ calls'[c].pc # calls[c].pc) =>
            \/ /\ calls'[c].pc = "failed"
               /\ \A d \in DOMAIN calls : Waiting(d) => calls'[d].pc = "failed"
            \/ /\ calls'[c].pc = "pages"
               /\ calls'[c].eng = calls[c].eng
               /\ calls[c].eng \notin DOMAIN engines
               /\ engines'[calls[c].eng] = "connected"
               /\ browser' = calls[c].eng
               /\ \A d \in DOMAIN calls :
                     Waiting(d) => calls'[d].pc = "pages" /\ calls'[d].eng = calls[c].eng

\* C7: callers that find no connected engine share one launch and all receive
\* the engine it produces; no second launch starts while one is pending.
C7_CoalescedLaunch == [] C7_OneLaunch /\ [][C7_SameEngine]_vars

\* After the first engine was closed, all callers hold the engine of the one
\* launch they awaited together.
C7_Witness ==
    /\ DOMAIN engines = {1, 2} /\ IsConnected(2) /\ browser = 2
    /\ requestCount = MaxPoolCalls
    /\ \A c \in 1..MaxPoolCalls :
          c \in DOMAIN calls /\ calls[c].pc = "pages" /\ calls[c].eng = 2

\* C8: the number of open leased pages of an engine never exceeds MAX_PAGES.
C8_PageCap ==
    \A e \in DOMAIN pages :
        Cardinality({i \in 1..Len(pages[e]) : pages[e][i] # 0}) <= MAX_PAGES

\* C9: the close scheduled when requestCount reaches MAX_REQUESTS never closes
\* the engine while a lease on it is in use.
C9_GracefulRecycle ==
    [][(recycleTimers' < recycleTimers /\ browser # 0
          /\ engines[browser] = "connected" /\ engines'[browser] = "closing")
        => ~\E c \in DOMAIN calls : calls[c].pc = "leased" /\ calls[c].eng = browser]_vars

\* C10: no engine generation serves a lease beyond its MAX_REQUESTS-th.
C10_NoLeaseBeyondMax ==
    \A e \in DOMAIN served : served[e] <= MAX_REQUESTS

\* C11 (state part): an engine the memory monitor called closeBrowser on is from
\* that step on no longer available as a connected engine.
C11_Closed == \A e \in restarted : engines[e] # "connected"

\* C11 (step part): a getPage call made after the memory monitor closed an
\* engine is not given that engine.
C11_NewEngine ==
    \A c \in (DOMAIN calls') \ (DOMAIN calls) : calls'[c].eng \notin restarted

\* C11 (progress part): every getPage call returns to its caller, with a page
\* that is released in the end or with an error, so that no job waits forever.
C11_CallsReturn ==
    \A c \in 1..MaxPoolCalls :
        (c \in DOMAIN calls) ~> (c \in DOMAIN calls /\ calls[c].pc \in {"done", "failed"})

\* C11: when the memory monitor finds memory above MAX_MEMORY_MB the engine is
\* closed at once, session-backed attempts started afterwards get a page from
\* a newly launched engine, and every attempt returns.
C11_MemoryRestart == [] C11_Closed /\ [][C11_NewEngine]_vars /\ C11_CallsReturn

\* C12: while a cooldown is in force (from the step that set throttleUntil up
\* to that time) no waitForSlot call is granted, whether it started before or
\* after the cooldown was set.
C12_CooldownBlocks ==
    [][Len(grantLog') > Len(grantLog) => now >= throttleUntil]_vars

\* C13: a call that started after a triggerCooldown call is granted no earlier
\* than the throttleUntil set by the last triggerCooldown call before it started.
C13_ManualCooldown ==
    \A i \in 1..Len(grantLog) :
        grantIds[i] > 0 =>
            (callInfo[grantIds[i]].cd > 0
               => grantLog[i] >= manualUntil[callInfo[grantIds[i]].cd])

\* C14: a grant that is the (MAX_REQUESTS_PER_MINUTE + 1)-th or a later one
\* within WINDOW_MS comes no earlier than BURST_COOLDOWN_MS after its call was made.
C14_BurstSuspends ==
    \A i \in 1..Len(grantLog) :
        (/\ grantIds[i] > 0
         /\ Cardinality({j \in 1..(i - 1) : grantLog[j] > grantLog[i] - WINDOW_MS})
              >= MAX_REQUESTS_PER_MINUTE)
        => grantLog[i] >= callInfo[grantIds[i]].at + BURST_COOLDOWN_MS

Granted(id) == \E i \in 1..Len(grantIds) : grantIds[i] = id

\* C15: every waitForSlot call is granted in the end, when timers fire.
C15_EventuallyGranted ==
    \A id \in 1..MaxCalls : (id <= callsMade) ~> Granted(id)

\* Every call was made and granted, one of them after sleeping through a
\* cooldown and one after the burst limit.
C15_Witness ==
    /\ callsMade = MaxCalls /\ sleepers = {}
    /\ \A id \in 1..MaxCalls : Granted(id)
    /\ \E i \in 1..Len(grantLog) :
          grantIds[i] > 0 /\ grantLog[i] >= callInfo[grantIds[i]].at + BURST_COOLDOWN_MS

\* The observed item's result, once recorded and while its batch is retained.
Recorded == 1 \in DOMAIN results /\ Len(results[1].items) > 0
\* The session-backed strategy, which is the one that acquires a session.
SESSION == HEADER_SETS + 1

\* C16: when the observed item's destination file exists as the item is
\* processed, no strategy is invoked for it (no fetch with any header set and no
\* session-backed capture, hence no session acquired), and its item result is
\* 'skipped', counted in completed and not in failed.
C16_IdempotentSkip ==
    (probe.disk = "exists" /\ jobCounter = 1) =>
        /\ invoked = <<>>
        /\ \A r \in running : r.pc = "settled"
        /\ 1 \in DOMAIN results =>
              /\ results[1].items = <<[idx |-> 1, status |-> "skipped"]>>
              /\ results[1].completed = 1
              /\ results[1].failed = 0

\* The item whose file existed was skipped, its callback ran and its batch is
\* complete.
C16_Witness ==
    /\ probe.disk = "exists" /\ jobCounter = 1
    /\ running = {} /\ activeDownloads = 0
    /\ Recorded /\ results[1].status = "complete"
    /\ results[1].items[1].status = "skipped"

\* The program deemed the payload of an invocation valid.
Accepted(v) ==
    IF v.strategy = SESSION THEN CaptureAccepts(v.size) ELSE FetchAccepts(v.size)

\* C17: the strategies invoked for an item whose file did not exist are, in
\* order, the header sets 1..HEADER_SETS and then the session-backed capture:
\* the i-th invocation is strategy i, so each comes after all earlier ones, every
\* invocation but the last had its payload not deemed valid, and once an
\* invocation's payload was deemed valid or the chain is exhausted the item is
\* at no strategy any more. Valid is what the program deems valid.
C17_StrategyOrder ==
    /\ Len(invoked) <= SESSION
    /\ \A i \in 1..Len(invoked) :
          /\ invoked[i].strategy = i
          /\ i < Len(invoked) => ~Accepted(invoked[i])
    /\ \A r \in running :
          /\ r.pc = "fetch" => r.attempt = Len(invoked) + 1
          /\ r.pc = "puppeteer" => Len(invoked) = HEADER_SETS
          /\ r.pc \in {"fetch", "puppeteer"} =>
                probe.disk = "absent" /\ \A i \in 1..Len(invoked) : ~Accepted(invoked[i])

\* The whole chain was invoked and the session-backed capture was deemed valid.
C17_Witness ==
    /\ Len(invoked) = SESSION
    /\ Accepted(invoked[SESSION])
    /\ running = {} /\ Recorded /\ results[1].items[1].status = "success"

\* C18: a payload is valid exactly from ITEM_MIN_BYTES on, whichever strategy
\* received it: as soon as an invocation has received that much the item is
\* recorded, as 'success' unless writing the file failed, and an item recorded as
\* 'success' has received that much from its last invocation.
C18_ValidFromMinimum ==
    /\ \A i \in 1..Len(invoked) :
          (invoked[i].size >= ITEM_MIN_BYTES /\ 1 \in DOMAIN results) =>
              /\ Recorded
              /\ results[1].items[1].status = "success" \/ thrown = WRITE_ERROR
    /\ (Recorded /\ results[1].items[1].status = "success") =>
          /\ Len(invoked) > 0
          /\ invoked[Len(invoked)].size >= ITEM_MIN_BYTES

\* C19: when every strategy of the chain was invoked and none had its payload
\* accepted, the item is recorded 'failed', the error pushed with it is the one
\* the last strategy attempt ended with, and the item is at no strategy again.
C19_LastErrorRetained ==
    (Len(invoked) = SESSION /\ \A i \in 1..SESSION : ~Accepted(invoked[i])) =>
        /\ \A r \in running : r.pc = "settled"
        /\ 1 \in DOMAIN results =>
              /\ results[1].items = <<[idx |-> 1, status |-> "failed"]>>
              /\ results[1].failed = 1
        /\ invoked[SESSION].error # "none" => thrown = invoked[SESSION].error

\* The items a batch can hold.
Items == [jobId : 1..MaxBatches, idx : 1..MaxJobs]
\* x waits in the queue or its downloadItem has not settled.
Unsettled(x) ==
    \/ \E i \in 1..Len(queue) : queue[i] = x
    \/ \E r \in running : ItemOf(r) = x /\ r.pc # "settled"
\* Some item of batch b waits in the queue or has its downloadItem not settled.
BatchUnsettled(b) == \E x \in Items : x.jobId = b /\ Unsettled(x)
\* x has its item result (a batch is purged only when all its items have one).
Terminal(x) ==
    x.jobId \in DOMAIN results =>
        \E i \in 1..Len(results[x.jobId].items) : results[x.jobId].items[i].idx = x.idx
\* The item results of batch b with status st.
CountStatus(its, st) == Cardinality({i \in 1..Len(its) : its[i].status = st})
\* The downloadItem of r has settled with a failure and its callback is due.
FailureInHand(r) ==
    /\ r.pc = "settled"
    /\ r.jobId \in DOMAIN results
    /\ \E i \in 1..Len(results[r.jobId].items) :
          results[r.jobId].items[i] = [idx |-> r.idx, status |-> "failed"]
\* The items of running, in the next state and in this one.
Started == {ItemOf(r) : r \in running'} \ {ItemOf(r) : r \in running}
Ended == {ItemOf(r) : r \in running} \ {ItemOf(r) : r \in running'}

\* C20 (step part): every step keeps the item results already recorded and
\* counts each new one in its own batch only; a failed item leaves the running
\* set by its callback alone, one per step, which takes one off the active
\* count and runs the scheduler: the count changes by the items started minus
\* one and afterwards the queue is empty or the concurrency cap is reached.
C20_Step ==
    /\ \A b \in (DOMAIN results) \cap (DOMAIN results') :
          /\ Len(results'[b].items) >= Len(results[b].items)
          /\ SubSeq(results'[b].items, 1, Len(results[b].items)) = results[b].items
          /\ results'[b].failed = CountStatus(results'[b].items, "failed")
          /\ results'[b].completed + results'[b].failed = Len(results'[b].items)
    /\ activeDownloads' = activeDownloads + Cardinality(Started) - Cardinality(Ended)
    /\ Cardinality(Ended) <= 1
    /\ \A r \in running :
          (FailureInHand(r) /\ ItemOf(r) \in Ended) =>
              /\ activeDownloads' = activeDownloads - 1 + Cardinality(Started)
              /\ Len(queue') = 0 \/ activeDownloads' >= MAX_CONCURRENT
              /\ \A x \in Started : \E i \in 1..Len(queue) : queue[i] = x
    /\ \A x \in Items : (Unsettled(x) /\ ~Unsettled(x)') => Terminal(x)'

\* C20 (progress part): whenever an item has failed, the other items that are
\* waiting or in flight at that moment, of its batch and of the other batches,
\* all cease to be so; by the step part each of them then has its item result.
C20_OthersFinish ==
    \A b \in 1..MaxBatches :
        (BatchUnsettled(b) /\ \E r \in running : FailureInHand(r)) ~> ~BatchUnsettled(b)

\* C20: a failure inside downloadItem is recorded on its own item only, takes
\* one off the active count, re-runs the scheduler, and leaves every other
\* waiting or running item to reach a terminal status.
C20_FailureIsolated == [][C20_Step]_vars /\ C20_OthersFinish

\* The first item of batch 1 failed and a later item of that batch and the
\* whole of batch 2 still completed, with nothing left waiting or active.
C20_Witness ==
    /\ DOMAIN results = 1..MaxBatches
    /\ Len(results[1].items) >= 2
    /\ results[1].items[1].status = "failed"
    /\ results[1].items[2].status = "success"
    /\ \A b \in 1..MaxBatches : results[b].status = "complete"
    /\ results[MaxBatches].completed >= 1
    /\ queue = <<>> /\ running = {} /\ activeDownloads = 0

\* The item results recorded for x in its batch, as positions of result.items.
ResultsOf(x) ==
    IF x.jobId \in DOMAIN results
    THEN {i \in 1..Len(results[x.jobId].items) : results[x.jobId].items[i].idx = x.idx}
    ELSE {}

\* C21 (state part): no item has two item results; an item that waits or whose
\* downloadItem has not settled has none, and one whose downloadItem has settled
\* has exactly one while its batch is retained.
C21_OneResult ==
    /\ \A x \in Items : Cardinality(ResultsOf(x)) <= 1
    /\ \A x \in Items : Unsettled(x) => ResultsOf(x) = {}
    /\ \A r \in running :
          (r.pc = "settled" /\ r.jobId \in DOMAIN results) =>
              Cardinality(ResultsOf(ItemOf(r))) = 1

\* C21 (step part): an item result, once recorded, keeps its place and status
\* for as long as its batch is retained.
C21_Kept ==
    \A b \in (DOMAIN results) \cap (DOMAIN results') :
        \A i \in 1..Len(results[b].items) :
            /\ i <= Len(results'[b].items)
            /\ results'[b].items[i] = results[b].items[i]

\* C21: each item reaches a terminal status at most once: one item result per
\* processed item, never changed and never recorded again.
C21_TerminalOnce == [] C21_OneResult /\ [][C21_Kept]_vars

\* A batch of three holds one result of each status after all callbacks ran.
C21_Witness ==
    /\ 1 \in DOMAIN results
    /\ Len(results[1].items) = 3
    /\ {results[1].items[i].status : i \in 1..3} = {"success", "skipped", "failed"}
    /\ {results[1].items[i].idx : i \in 1..3} = 1..3
    /\ running = {} /\ queue = <<>>

\* C22 (state part): in every batch completed + failed is the number of item
\* results recorded and is at most total.
C22_Counted ==
    \A b \in DOMAIN results :
        /\ results[b].completed + results[b].failed = Len(results[b].items)
        /\ results[b].completed + results[b].failed <= results[b].total
        /\ results[b].completed >= 0 /\ results[b].failed >= 0

\* C22 (step part): completed + failed of a retained batch never decreases.
C22_Monotone ==
    \A b \in (DOMAIN results) \cap (DOMAIN results') :
        results'[b].completed + results'[b].failed >=
            results[b].completed + results[b].failed

\* C22: for every batch, completed + failed never decreases, never exceeds
\* total and equals the number of item results recorded.
C22_Counters == [] C22_Counted /\ [][C22_Monotone]_vars

\* One batch is fully counted with a skipped and a failed item while another
\* is part-way.
C22_Witness ==
    /\ DOMAIN results = 1..MaxBatches
    /\ results[1].total = 2 /\ results[1].completed = 1 /\ results[1].failed = 1
    /\ \E i \in 1..2 : results[1].items[i].status = "skipped"
    /\ results[MaxBatches].total = 2
    /\ results[MaxBatches].completed + results[MaxBatches].failed = 1

\* C23 (step part): a batch leaves results only by its retention timer, which
\* was armed when the batch became complete: the batch is 'complete' with
\* completed + failed = total and none of its items waits or is in flight.
C23_RemovedWhenDue ==
    \A b \in (DOMAIN results) \ (DOMAIN results') :
        /\ results[b].status = "complete"
        /\ purgeTimers[b] > 0 /\ purgeTimers'[b] = purgeTimers[b] - 1
        /\ Complete(b)
        /\ ~BatchUnsettled(b)

\* C23 (progress part): every batch that is complete is removed.
C23_Removed ==
    \A b \in 1..MaxBatches :
        (b \in DOMAIN results /\ results[b].status = "complete") ~> (b \notin DOMAIN results)

\* C23: results are removed only after the batch is complete and its retention
\* timer has fired, never while it has waiting or active items, and every
\* complete batch is removed in the end, so that the live batches are those
\* within their retention window and the incomplete ones.
C23_Retention == [][C23_RemovedWhenDue]_vars /\ C23_Removed

\* Both batches were accepted and completed, and their results are gone.
C23_Witness ==
    /\ accepted = 1..MaxBatches
    /\ submitted = MaxJobs
    /\ DOMAIN results = {}
    /\ queue = <<>> /\ running = {}

\* getStatus(jobId) for the b-th job id issued.
GetStatus(b) ==
    IF b \in DOMAIN results THEN results[b] ELSE [status |-> "not_found"]

\* C24: for every job id that addBatch has issued, at every moment, getStatus
\* gives a view with status pending, processing or complete, with total,
\* completed, failed and items, each item's status being success, skipped or
\* failed.
C24_StatusView ==
    \A b \in 1..jobCounter :
        /\ GetStatus(b).status \in {"pending", "processing", "complete"}
        /\ {"total", "completed", "failed", "items"} \subseteq DOMAIN GetStatus(b)
        /\ \A i \in 1..Len(GetStatus(b).items) :
              GetStatus(b).items[i].status \in {"success", "skipped", "failed"}

\* C25: a submission that is answered with an error leaves no trace: every job
\* id issued, every batch in results and every queue entry belongs to a batch
\* whose addBatch returned its id to the caller.
C25_RejectedLeavesNothing ==
    /\ \A b \in 1..jobCounter : b \in accepted
    /\ DOMAIN results \subseteq accepted
    /\ \A i \in 1..Len(queue) : queue[i].jobId \in accepted

\* C26 (failure part): when a launch fails, every caller that awaits it, the
\* one that started it and the ones that joined it, gets the error; no launch
\* is started in its place; isLaunching is false and launchPromise null; and
\* this.browser is as before, naming no connected engine.
C26_Propagated ==
    \A l \in launches \ launches' :
        l \notin DOMAIN engines' =>
            /\ \A c \in DOMAIN calls :
                  (Waiting(c) /\ calls[c].eng = l) => calls'[c].pc = "failed"
            /\ launches' = launches \ {l}
            /\ ~isLaunching' /\ launchPromise' = 0
            /\ browser' = browser /\ engines' = engines
            /\ ~IsConnected(browser)

\* C26 (recovery part): a getPage that finds no connected engine and no launch
\* in flight starts a launch of its own, also after callers have failed.
C26_FreshLaunch ==
    \A c \in (DOMAIN calls') \ (DOMAIN calls) :
        (~IsConnected(browser) /\ launches = {}) =>
            /\ calls'[c].pc = "launcher"
            /\ calls'[c].eng \notin launches
            /\ launches' = {calls'[c].eng}
            /\ isLaunching' /\ launchPromise' = calls'[c].eng

C27_OneTimer == idleTimer <= 1

\* C27 (activity part): a getPage that finds a connected engine, a launch that
\* resolves and a releasePage each leave exactly one idle timer pending, the one
\* they armed.
C27_Rearmed ==
    /\ \A c \in (DOMAIN calls') \ (DOMAIN calls) :
          calls'[c].pc = "pages" => idleTimer' = 1
    /\ (DOMAIN engines' # DOMAIN engines) => idleTimer' = 1
    /\ \A c \in DOMAIN calls :
          (calls[c].pc = "leased" /\ calls'[c].pc = "done") => idleTimer' = 1

\* C27 (close part): the idle path closes a connected engine only by the firing
\* of the pending idle timer, after which none is pending.
C27_ClosedByTimer ==
    idled' # idled =>
        /\ idleTimer = 1 /\ idleTimer' = 0
        /\ idled' = idled \cup {browser}
        /\ engines[browser] = "connected" /\ engines'[browser] = "closing"

\* C27 (relaunch part): a getPage issued after an idle close is served by an
\* engine other than the one the idle path closed.
C27_Relaunched ==
    \A c \in (DOMAIN calls') \ (DOMAIN calls) : calls'[c].eng \notin idled

\* C27: the idle path closes the engine only by the one pending idle timer,
\* which every activity re-arms, and a getPage after an idle close gets a newly
\* launched engine.
C27_IdleClose ==
    [] C27_OneTimer /\ [][C27_Rearmed /\ C27_ClosedByTimer /\ C27_Relaunched]_vars

\* C28: a releasePage of the page of call c takes at most that page off its
\* engine and leaves one idle timer pending; this.browser, every engine's
\* connection, requestCount, the engines restarted by the memory monitor, every
\* other page and every other call stay as they were, whether the page was
\* still open, already closed with its engine, or evicted before.
C28_ReleaseFrame ==
    \A c \in DOMAIN calls :
        (calls[c].pc = "leased" /\ calls'[c].pc = "done") =>
            /\ \A e \in DOMAIN pages :
                  pages'[e] = IF e = calls[c].eng THEN Remove(pages[e], c) ELSE pages[e]
            /\ idleTimer' = 1
            /\ browser' = browser /\ engines' = engines
            /\ requestCount' = requestCount
            /\ restarted' = restarted
            /\ <<isLaunching, launchPromise, launches>>' =
                  <<isLaunching, launchPromise, launches>>
            /\ <<memoryCheckTimer, recycleTimers, closers>>' =
                  <<memoryCheckTimer, recycleTimers, closers>>
            /\ \A d \in DOMAIN calls : d # c => calls'[d] = calls[d]

\* C28 as a property of every step.
C28_ReleaseOnlyPage == [][C28_ReleaseFrame]_vars

\* One caller has released its page while another still holds its own, open
\* on the connected engine after requests were counted.
C28_Witness ==
    /\ \E c \in DOMAIN calls : calls[c].pc = "done"
    /\ \E d \in DOMAIN calls :
          /\ calls[d].pc = "leased"
          /\ calls[d].eng = browser
          /\ Has(pages[browser], d)
    /\ engines[browser] = "connected"
    /\ requestCount > 0
    /\ idleTimer = 1

\* The page contains a known unavailability phrase, or no post element, or is
\* shorter than the minimum length, or contains a verification marker.
Unusable(h) ==
    \/ h.contains \cap WarningPatterns # {}
    \/ h.contains \cap PostElements = {}
    \/ h.length < MIN_PAGE_LENGTH
    \/ h.contains \cap VerifyMarkers # {}

\* C29: analyzePage gives structureValid = false exactly for a page that
\* contains an unavailability phrase, or none of the post elements, or is
\* shorter than MIN_PAGE_LENGTH, or contains a verification marker; exactly one
\* post element, or no media element, adds an issue and does not by itself
\* clear structureValid.
C29_StructureValid ==
    lastDiagnostic.analyzed =>
        /\ lastDiagnostic.structureValid = ~Unusable(html)
        /\ html.length < MIN_PAGE_LENGTH => ~lastDiagnostic.structureValid
        /\ Cardinality(html.contains \cap PostElements) = 1 =>
              <<"Only 1 post elements found", "expected 2+">> \in lastDiagnostic.issues
        /\ html.contains \cap MediaElements = {} =>
              <<"No media URL patterns found in page", "">> \in lastDiagnostic.issues

\* A page of the minimum length with exactly one post element and no media
\* element was analysed: two issues, structureValid still true.
C29_Witness ==
    /\ lastDiagnostic.analyzed
    /\ html.length = MIN_PAGE_LENGTH
    /\ Cardinality(html.contains \cap PostElements) = 1
    /\ html.contains \cap MediaElements = {}
    /\ lastDiagnostic.structureValid
    /\ Cardinality(lastDiagnostic.issues) = 2

\* The calls whose report, or whose page copy, is in the store.
Reports == {diagFiles[i].id : i \in {j \in 1..Len(diagFiles) : diagFiles[j].kind = "diag"}}
Copies == {diagFiles[i].id : i \in {j \in 1..Len(diagFiles) : diagFiles[j].kind = "page"}}
MAX_PAIRS == 10

\* C30: after any sequence of saveDiagnostic calls, failed writes included,
\* the store holds at most ten reports and ten page copies, and every report
\* in it has its page copy beside it.
C30_BoundedStore ==
    /\ Cardinality(Reports) <= MAX_PAIRS
    /\ Cardinality(Copies) <= MAX_PAIRS
    /\ Reports \subseteq Copies

\* C31: for a report with structureValid = false getErrorMessage returns the
\* one message of the highest-priority condition the page triggers:
\* verification marker, then unavailability phrase, then short page, then the
\* structure-changed message.
C31_MessagePriority ==
    (errorMessage # NoMessage /\ ~lastDiagnostic.structureValid) =>
        errorMessage.text =
            IF html.contains \cap VerifyMarkers # {} THEN VERIFY_MESSAGE
            ELSE IF html.contains \cap WarningPatterns # {} THEN UNAVAILABLE_MESSAGE
            ELSE IF html.length < MIN_PAGE_LENGTH THEN BLOCKED_MESSAGE
            ELSE STRUCTURE_MESSAGE

\* A short page with a verification marker and an unavailability phrase was
\* described with the verification message.
C31_Witness ==
    /\ errorMessage.text = VERIFY_MESSAGE
    /\ html.length < MIN_PAGE_LENGTH
    /\ html.contains \cap WarningPatterns # {}
    /\ html.contains \cap VerifyMarkers # {}

\* C32: no strategy of a queue job is invoked before the rate limiter granted
\* a waitForSlot call made for that job.
C32_AdmittedBeforeAttempt ==
    invoked # <<>> => (callsMade > 0 /\ Len(grantLog) > 0)

\* C33: admission is first in, first out: of two waitForSlot calls the one
\* invoked first is granted no later than the other.
C33_FifoAdmission ==
    \A i, j \in 1..Len(grantIds) :
        (grantIds[i] > 0 /\ grantIds[j] > 0 /\ grantIds[i] < grantIds[j])
            => grantLog[i] <= grantLog[j]

\* getStats().requestsLastMinute
RequestsLastMinute == Len(requestTimestamps)

\* The grants made less than WINDOW_MS ago.
RecentGrants == {i \in 1..Len(grantLog) : grantLog[i] > now - WINDOW_MS}

\* C34: at every moment requestTimestamps holds only grant times less than
\* WINDOW_MS old and every grant of the last WINDOW_MS, so requestsLastMinute
\* is the number of grants of the last minute.
C34_WindowExact ==
    /\ \A i \in 1..Len(requestTimestamps) : requestTimestamps[i] > now - WINDOW_MS
    /\ RequestsLastMinute = Cardinality(RecentGrants)

\* addBatch returned in this step.
AddBatchReturned == accepted' # accepted

\* A .finally callback of processQueue ran in this step.
CallbackRan == \E r \in running : r.pc = "settled" /\ r \notin running'

\* C35: when addBatch has returned and when a completion callback has run,
\* the queue is empty or activeDownloads is MAX_CONCURRENT; after addBatch of
\* at least MAX_CONCURRENT items activeDownloads is MAX_CONCURRENT.
C35_Quiescent ==
    /\ (AddBatchReturned \/ CallbackRan) =>
          (Len(queue') = 0 \/ activeDownloads' = MAX_CONCURRENT)
    /\ (AddBatchReturned /\ results'[jobCounter'].total >= MAX_CONCURRENT) =>
          activeDownloads' = MAX_CONCURRENT

C35_WorkConserving == [][C35_Quiescent]_vars

\* A completion callback started the item behind the first MAX_CONCURRENT of a
\* batch while the others were still running.
C35_Witness ==
    /\ activeDownloads = MAX_CONCURRENT
    /\ \E r \in running : r.jobId = 1 /\ r.idx = MAX_CONCURRENT + 1
    /\ 1 \in DOMAIN results /\ results[1].total > MAX_CONCURRENT

\* x was enqueued before y: batches in addBatch order, items in item order.
Before(x, y) == x.jobId < y.jobId \/ (x.jobId = y.jobId /\ x.idx < y.idx)

\* x waits in the queue.
Queued(x) == \E i \in 1..Len(queue) : queue[i] = x

\* The items whose downloadItem is in flight or has recorded its result.
StartedItems ==
    {ItemOf(r) : r \in running} \cup
    {x \in Items : x.jobId \in DOMAIN results /\
                   \E i \in 1..Len(results[x.jobId].items) :
                       results[x.jobId].items[i].idx = x.idx}

\* The queue is in submission order, holds no started item, and every started
\* item was enqueued before every waiting one.
C36_InOrder ==
    /\ \A i, j \in 1..Len(queue) : i < j => Before(queue[i], queue[j])
    /\ \A x \in StartedItems : ~Queued(x) /\ \A i \in 1..Len(queue) : Before(x, queue[i])

\* The items a step starts are new to running, have no result yet, leave the
\* queue for good in that step and precede all that still wait.
C36_StartStep ==
    \A x \in {ItemOf(r) : r \in running'} \ {ItemOf(r) : r \in running} :
        /\ x \notin StartedItems
        /\ Queued(x) \/ x.jobId = jobCounter'
        /\ \A i \in 1..Len(queue') : Before(x, queue'[i])
        /\ Cardinality({r \in running' : ItemOf(r) = x}) = 1

\* The items of batch b that wait in the queue are all started in the end.
C36_AllStarted ==
    \A b \in 1..MaxBatches :
        (\E x \in Items : x.jobId = b /\ Queued(x))
            ~> ~(\E x \in Items : x.jobId = b /\ Queued(x))

\* C36: items are started in submission order, within a batch in item order
\* and across batches in addBatch order, and each enqueued item is started
\* exactly once.
C36_SubmissionOrder ==
    /\ [] C36_InOrder
    /\ [][C36_StartStep]_vars
    /\ C36_AllStarted

\* The scheduled recycle closes a connected engine in this step.
RecycleCloses ==
    /\ recycleTimers' < recycleTimers
    /\ browser # 0 /\ engines[browser] = "connected" /\ engines'[browser] = "closing"

\* C37: at most one recycle is pending for an engine generation, and a recycle
\* timer closes only the engine whose getPage scheduled it, never an engine
\* launched afterwards.
C37_OwnGeneration ==
    /\ [] (\A e \in DOMAIN engines :
              Cardinality({i \in 1..Len(recycleFor) : recycleFor[i] = e}) <= 1)
    /\ [][RecycleCloses => Head(recycleFor) = browser]_vars

\* C38: every page that a getPage call opened and that is still open belongs
\* to a call whose operation is still under way; once the operation has ended,
\* or getPage has failed, the page is closed.
C38_NoOpenLeaseLeft ==
    \A e \in DOMAIN pages :
        \A i \in 1..Len(pages[e]) :
            pages[e][i] > 0 => calls[pages[e][i]].pc = "leased"

\* C39: the browser a photo scrape launched directly is closed when the call
\* has returned, on every path; with no photo scrape under way no directly
\* launched browser is live.
C39_DirectBrowserClosed ==
    \A s \in DOMAIN scrapes :
        scrapes[s].pc = "returned" => scrapes[s].browser # "live"

\* The download the popup last started has neither media nor error stored yet.
InFlight ==
    /\ handlers # <<>>
    /\ handlers[Len(handlers)] \in {"settings", "persist", "fetch"}

\* C40: from the worker's answer to startDownload until the download's media
\* or error is stored, every getState answer has isProcessing = true; a poll
\* never sees the idle state for a download in flight.
C40_ProcessingWhileInFlight ==
    [][(polls' # polls /\ InFlight) => reply'.isProcessing]_vars

====
